---- MODULE Spec2Model ----
(***************************************************************************)
(* Model of replited: the WAL replication pipeline of a SQLite database.   *)
(*                                                                         *)
(*   - SQLite and the other writers of the database are the environment:   *)
(*     the live WAL file, its valid frame count, the write lock and the    *)
(*     effect of wal_checkpoint.                                           *)
(*   - The database orchestrator (Database::sync, create_generation,       *)
(*     do_checkpoint, snapshot) is a step machine: one step per SQLite     *)
(*     call or filesystem step at which other processes can interleave.    *)
(*   - Each replica worker (Replicate) handles DbChanged / Snapshot        *)
(*     commands and uploads WAL segments to its object store.              *)
(*   - The restore command (Restore::run) is a step machine over the       *)
(*     replicas' object stores, the output path and its temp file.         *)
(***************************************************************************)
EXTENDS Integers, Sequences, FiniteSets, TLC

\* ------------------------------------------------------------------------
\* Program constants
\* ------------------------------------------------------------------------
WAL_HEADER_SIZE == 32
WAL_FRAME_HEADER_SIZE == 24
MAX_WAL_INDEX == 2147483647
CHANNEL_CAPACITY == 16

\* page size of the database (a power of two >= 1024; the smallest legal one)
PageSize == 1024
FrameSize == WAL_FRAME_HEADER_SIZE + PageSize

\* ------------------------------------------------------------------------
\* Bounds of the model
\* ------------------------------------------------------------------------
\* modulus of a checksum word (2^32 in the program)
CkMod == 2
\* frames the other writers may write in one run
MaxWrites == 2
\* frames the other writers may write in a run with replicas
RepWrites == 1
\* sync cycles of a run in which the process dies and starts again
RestartTicks == 3
\* sync cycles (ticks) of the orchestrator in one run
MaxTicks == 2
\* bytes of a torn (partially written) frame at the end of the live WAL
TornBytes == 100
\* commands a channel holds in the model (the program's channels hold 16)
MaxInbox == 2
\* crashes of the replicator process in one run
MaxCrashes == 1
\* replicas a run is configured with, at most
MaxReplicas == 2
\* min-checkpoint-page-number of the runs; the RESTART and the TRUNCATE
\* thresholds are one and two pages above it
MinPages == 1

NoHdr == [salt |-> 0, ck |-> <<0, 0>>]
EmptyFile == [hdr |-> NoHdr, frames |-> <<>>, partial |-> 0]
\* what a read beyond the last whole frame yields (no frame has page 0)
EofFrame == [pgno |-> 0, dbsize |-> 0, salt |-> 0, data |-> <<0, 0>>, ck |-> <<0, 0>>]
EmptyPos == [generation |-> 0, index |-> 0, offset |-> 0]
\* a path at which no file exists
NoFile == <<>>
\* RestoreOptions of a process that does not run the restore command
NoOptions == [generation |-> 0, overwrite |-> FALSE]
\* Option::None of decide_restore_info
NoRestoreInfo ==
    [err |-> "", some |-> FALSE, generation |-> 0, index |-> 0, wal_segments |-> <<>>]
\* the restore command before Restore::run is entered (pc "off": the process
\* runs another command); read, failed and before are ghosts: the replicas
\* whose store the run has read, those whose planning failed, and the output
\* file as the run found it
RsOff ==
    [pc |-> "off", k |-> 1, client |-> 0, latest |-> NoRestoreInfo, groups |-> <<>>,
     result |-> "", read |-> {}, failed |-> {}, before |-> NoFile]

\* no function is applied on its own (fn "": the process runs as a whole);
\* out = NoResult: the function has not returned yet
NoResult == <<>>
NoCall == [fn |-> "", in |-> <<>>, out |-> NoResult]

Pages == {1, 2}
\* page contents the other writers choose from (one 8-byte block of two words)
DataVals == {<<0, 0>>, <<1, 0>>, <<0, 1>>}
\* the page of the _replited_seq table
SeqPage == 1
\* index of the current shadow file of a generation that has rotated before
RotIndex == 9

\* ------------------------------------------------------------------------
\* WAL codec (sqlite/common.rs, sqlite/wal_header.rs)
\* ------------------------------------------------------------------------
RECURSIVE checksum(_, _, _)
checksum(data, s1, s2) ==
    IF data = <<>> THEN <<s1, s2>>
    ELSE LET n1 == Head(data)[1] % CkMod
             n2 == Head(data)[2] % CkMod
             t1 == (s1 + n1 + s2) % CkMod
             t2 == (s2 + n2 + t1) % CkMod
         IN checksum(Tail(data), t1, t2)

\* the checksum a frame must carry when the running checksum before it is ck:
\* fold of the first 8 header bytes (page number, db size), then of the page
FrameChecksum(pgno, dbsize, data, ck) ==
    LET h == checksum(<< <<pgno, dbsize>> >>, ck[1], ck[2])
    IN checksum(<<data>>, h[1], h[2])

\* the header of a WAL whose salt is s: bytes 0..24 checksummed from (0, 0)
MakeHeader(s) == [salt |-> s, ck |-> checksum(<< <<s, 0>> >>, 0, 0)]

MakeFrame(pgno, dbsize, data, s, ck) ==
    [pgno |-> pgno, dbsize |-> dbsize, salt |-> s, data |-> data,
     ck |-> FrameChecksum(pgno, dbsize, data, ck)]

FileSize(f) ==
    IF f.hdr = NoHdr THEN 0
    ELSE WAL_HEADER_SIZE + Len(f.frames) * FrameSize + f.partial

align_frame(offset) ==
    IF offset < WAL_HEADER_SIZE THEN 0
    ELSE ((offset - WAL_HEADER_SIZE) \div FrameSize) * FrameSize + WAL_HEADER_SIZE

\* number of whole frames below a frame-aligned offset
FramesBelow(offset) ==
    IF offset < WAL_HEADER_SIZE THEN 0 ELSE (offset - WAL_HEADER_SIZE) \div FrameSize

calc_wal_size(n) == WAL_HEADER_SIZE + (WAL_FRAME_HEADER_SIZE + PageSize) * n

\* read_last_checksum: the checksum words of the last whole frame of the
\* file, or of the header when the file holds no more than a header
read_last_checksum(f) ==
    IF FileSize(f) > WAL_HEADER_SIZE
    THEN f.frames[FramesBelow(align_frame(FileSize(f)))].ck
    ELSE f.hdr.ck

\* ------------------------------------------------------------------------
\* File names (base/file.rs)
\* ------------------------------------------------------------------------
RECURSIVE HexDigits(_, _)
HexDigits(n, width) ==
    IF width = 0 THEN <<>> ELSE Append(HexDigits(n \div 16, width - 1), n % 16)

\* format!("{:08X}"): eight hexadecimal digits, letters in upper case
format_wal_path(index) == [digits |-> HexDigits(index, 8), upper |-> TRUE]

\* format!("{:08X}"), of a snapshot index and of a segment's index and offset
format_snapshot_path(index) == [digits |-> HexDigits(index, 8), upper |-> TRUE]
format_walsegment_path(index, offset) ==
    <<[digits |-> HexDigits(index, 8), upper |-> TRUE],
      [digits |-> HexDigits(offset, 8), upper |-> TRUE]>>

RECURSIVE HexValue(_)
HexValue(ds) ==
    IF ds = <<>> THEN 0 ELSE HexValue(SubSeq(ds, 1, Len(ds) - 1)) * 16 + ds[Len(ds)]

\* WAL_REGEX ^([0-9a-f]{8})\.wal$ : an upper-case letter does not match;
\* -1 stands for the InvalidPath error
parse_wal_path(name) ==
    IF Len(name.digits) = 8
       /\ \A k \in 1 .. 8 : name.digits[k] < 10 \/ ~name.upper
    THEN HexValue(name.digits)
    ELSE -1

\* SNAPSHOT_REGEX ^([0-9a-f]{8})\.snapshot\.lz4$
parse_snapshot_path(name) ==
    IF Len(name.digits) = 8
       /\ \A k \in 1 .. 8 : name.digits[k] < 10 \/ ~name.upper
    THEN HexValue(name.digits)
    ELSE -1

\* WAL_SEGMENT_REGEX ^([0-9a-f]{8})(?:_([0-9a-f]{8}))\.wal\.lz4$
parse_wal_segment_path(name) ==
    IF \A j \in 1 .. 2 :
          /\ Len(name[j].digits) = 8
          /\ \A k \in 1 .. 8 : name[j].digits[k] < 10 \/ ~name[j].upper
    THEN <<HexValue(name[1].digits), HexValue(name[2].digits)>>
    ELSE <<-1, -1>>

VARIABLES
    \* --- environment: SQLite and the other writers ---
    wal,        \* the live WAL file: [hdr, frames, partial]
    mx,         \* valid committed frames of the current WAL cycle (mxFrame)
    wtx,        \* frames written by the open transaction of another writer
    wlock,      \* holder of the SQLite write lock: "none" or "writer"
    ckptDone,   \* the WAL is completely checkpointed: the next write restarts it
    salt,       \* salt of the current WAL cycle
    dbfile,     \* the database file: page number -> page content
    seq,        \* value of _replited_seq.seq (modulo 2)
    wleft,      \* frames the other writers may still write in this run
    hist,       \* ghost: every committed frame, in commit order
    \* --- meta directory ---
    genfile,    \* the `generation` pointer file: 0 = absent, else generation id
    gendirs,    \* generations/<g> directories that exist
    shadow,     \* shadow WAL files: <<g, index>> -> [hdr, frames, partial]
    nextGen,    \* clock of the time-ordered generation ids
    genStart,   \* ghost: length of hist when the current generation started
    \* --- orchestrator ---
    config,     \* the database configuration (constant during a run)
    pc,         \* the step the orchestrator is at ("down": process not running)
    info,       \* locals of the running handler (SyncInfo and friends)
    tleft,      \* sync cycles the orchestrator may still start in this run
    cleft,      \* crashes that may still happen in this run
    dbInbox,    \* command channel of the orchestrator: replica indexes
    \* --- replica workers ---
    rpos,       \* Replicate::position (shared with the orchestrator)
    rstate,     \* Replicate::state
    rpc,        \* "idle": waiting for a command; "loop": in the segment loop
    rInbox,     \* command channel of each replica
    remote,     \* object store of each replica: [snaps, segs]; a snapshot is
                \* keyed by <<generation, index>>, a segment by
                \* <<root, generation, index, offset>>
    sent,       \* ghost: replicas the last completed sync cycle notified
    \* --- restore command ---
    options,    \* RestoreOptions: [generation, overwrite] (0: no generation named)
    output,     \* the file at options.output: NoFile, or a database file
    temp,       \* the NamedTempFile of Restore::run: NoFile, or a database file
    rs,         \* Restore::run: its step, its locals and its result
    \* --- functions applied on their own ---
    call        \* a function of the program with its arguments and its result

envVars == <<wal, mx, wtx, wlock, ckptDone, salt, dbfile, seq, wleft, hist>>
metaVars == <<genfile, gendirs, shadow, nextGen, genStart>>
dbVars == <<config, pc, info, tleft, cleft, dbInbox>>
repVars == <<rpos, rstate, rpc, rInbox, remote>>
restoreVars == <<options, output, temp, rs>>
vars == <<envVars, metaVars, dbVars, repVars, sent, restoreVars, call>>

\* ------------------------------------------------------------------------
\* Environment: SQLite's WAL protocol as the replicator observes it
\* ------------------------------------------------------------------------
\* the frame at physical position p is replaced or appended
PutFrame(frames, p, f) ==
    SubSeq(frames, 1, p - 1) \o <<f>> \o SubSeq(frames, p + 1, Len(frames))

\* a transaction that starts on a completely checkpointed (or truncated) WAL
\* restarts it: new salts, new header, frames written from the start again
Restarts == wtx = 0 /\ (ckptDone \/ wal.hdr = NoHdr)

\* one frame is written to the live WAL by the holder of the write lock
SqliteWriteFrame(pgno, dbsize, data) ==
    LET s == IF Restarts THEN salt + 1 ELSE salt
        hdr == IF Restarts THEN MakeHeader(s) ELSE wal.hdr
        p == IF Restarts THEN 1 ELSE mx + wtx + 1
        old == IF Restarts /\ wal.hdr = NoHdr THEN <<>> ELSE wal.frames
        prev == IF p = 1 THEN hdr.ck ELSE old[p - 1].ck
        f == MakeFrame(pgno, dbsize, data, s, prev)
        committed == IF Restarts THEN 0 ELSE mx
    IN /\ salt' = s
       /\ wal' = [hdr |-> hdr, frames |-> PutFrame(old, p, f),
                  partial |-> IF p > Len(old) THEN 0 ELSE wal.partial]
       /\ ckptDone' = FALSE
       /\ IF dbsize > 0
          THEN /\ mx' = p
               /\ wtx' = 0
               /\ hist' = hist \o SubSeq(wal'.frames, committed + 1, p)
          ELSE /\ mx' = committed
               /\ wtx' = wtx + 1
               /\ hist' = hist

\* the database file after the frames 1..n of the WAL are written back
RECURSIVE Backfill(_, _, _)
Backfill(db, frames, n) ==
    IF n = 0 THEN db
    ELSE LET d == Backfill(db, frames, n - 1)
         IN [d EXCEPT ![frames[n].pgno] = frames[n].data]

\* another writer writes one frame of its transaction (a commit frame ends it)
WriterFrame ==
    /\ wleft > 0
    /\ \E pgno \in Pages, dbsize \in {0, 1}, data \in DataVals :
          SqliteWriteFrame(pgno, dbsize, data)
    /\ wlock' = IF wtx' = 0 THEN "none" ELSE "writer"
    /\ wleft' = wleft - 1
    /\ UNCHANGED <<dbfile, seq>>

\* another writer has written only a part of its next frame so far
WriterTorn ==
    /\ wleft > 0
    /\ wal.hdr # NoHdr /\ ~Restarts
    /\ wal.partial = 0
    /\ mx + wtx = Len(wal.frames)
    /\ wal' = [wal EXCEPT !.partial = TornBytes]
    /\ wlock' = "writer"
    /\ UNCHANGED <<mx, wtx, ckptDone, salt, dbfile, seq, wleft, hist>>

\* another writer rolls its open transaction back
WriterRollback ==
    /\ wlock = "writer"
    /\ wtx' = 0
    /\ wlock' = "none"
    /\ UNCHANGED <<wal, mx, ckptDone, salt, dbfile, seq, wleft, hist>>

\* ------------------------------------------------------------------------
\* Shadow WAL writer (database/database.rs)
\* ------------------------------------------------------------------------
\* WALFrame::read(file, page_size) at whole-frame position k: the frame, or
\* UnexpectedEof when fewer than k whole frames are in the file
WALFrame_read(f, k) ==
    IF f.hdr # NoHdr /\ k <= Len(f.frames) THEN f.frames[k] ELSE EofFrame

\* the running checksum a loop iteration of copy_to_shadow_wal starts from:
\* the `let (ck1, ck2)` inside the loop body shadows the outer binding, so
\* every iteration starts again from the last checksum of the shadow (ck0),
\* not from the checksum of the frame before (prev)
loop_checksum(ck0, prev) == ck0

\* the frames the read loop of copy_to_shadow_wal writes to its temp file
RECURSIVE ScanFrames(_, _, _, _, _)
ScanFrames(f, k, hdr, ck0, prev) ==
    LET fr == WALFrame_read(f, k)
    IN IF fr = EofFrame THEN <<>>
       ELSE IF fr.salt # hdr.salt THEN <<>>
       ELSE IF FrameChecksum(fr.pgno, fr.dbsize, fr.data, loop_checksum(ck0, prev)) # fr.ck
            THEN <<>>
       ELSE <<fr>> \o ScanFrames(f, k + 1, hdr, ck0, fr.ck)

\* number of frames up to and including the last commit frame
RECURSIVE LastCommit(_)
LastCommit(frames) ==
    IF frames = <<>> THEN 0
    ELSE IF frames[Len(frames)].dbsize # 0 THEN Len(frames)
    ELSE LastCommit(SubSeq(frames, 1, Len(frames) - 1))

\* the bytes copy_to_shadow_wal appends: the whole temp file is read back
\* (read_to_end) and appended
copy_buffer(scanned) == scanned

\* (variant: the bytes of the live WAL are appended up to its end, a torn
\* frame included)
copy_to_shadow_wal_raw(sf) ==
    LET orig_wal_size == align_frame(FileSize(wal))
        orig_shadow_wal_size == align_frame(FileSize(sf))
        scanned == ScanFrames(wal, FramesBelow(orig_shadow_wal_size) + 1, sf.hdr,
                              read_last_checksum(sf), read_last_checksum(sf))
        last_commit_size == orig_shadow_wal_size + LastCommit(scanned) * FrameSize
    IN IF FileSize(sf) < WAL_HEADER_SIZE
       THEN [file |-> sf, orig |-> orig_wal_size, new |-> 0, ok |-> FALSE]
       ELSE IF last_commit_size = orig_shadow_wal_size
       THEN [file |-> sf, orig |-> orig_wal_size, new |-> last_commit_size, ok |-> TRUE]
       ELSE [file |-> [sf EXCEPT !.frames = sf.frames \o copy_buffer(scanned),
                                 !.partial = wal.partial],
             orig |-> orig_wal_size, new |-> last_commit_size, ok |-> TRUE]

\* copy_to_shadow_wal(shadow_wal) on the shadow file sf
\* result: the shadow file afterwards, (orig_wal_size, last_commit_size), ok
copy_to_shadow_wal(sf) ==
    LET orig_wal_size == align_frame(FileSize(wal))
        orig_shadow_wal_size == align_frame(FileSize(sf))
        scanned == ScanFrames(wal, FramesBelow(orig_shadow_wal_size) + 1, sf.hdr,
                              read_last_checksum(sf), read_last_checksum(sf))
        last_commit_size == orig_shadow_wal_size + LastCommit(scanned) * FrameSize
    IN IF FileSize(sf) < WAL_HEADER_SIZE
       THEN [file |-> sf, orig |-> orig_wal_size, new |-> 0, ok |-> FALSE]
       ELSE IF last_commit_size = orig_shadow_wal_size
       THEN [file |-> sf, orig |-> orig_wal_size, new |-> last_commit_size, ok |-> TRUE]
       ELSE [file |-> [sf EXCEPT !.frames = sf.frames \o copy_buffer(scanned)],
             orig |-> orig_wal_size, new |-> last_commit_size, ok |-> TRUE]

\* init_shadow_wal_file: File::create truncates, then the live header is
\* written and copy_to_shadow_wal runs once
init_shadow_wal_file ==
    copy_to_shadow_wal([hdr |-> wal.hdr, frames |-> <<>>, partial |-> 0])

\* ------------------------------------------------------------------------
\* Generation manager and verifier (database/database.rs)
\* ------------------------------------------------------------------------
current_generation == genfile

Max(S) == CHOOSE x \in S : \A y \in S : y <= x

\* current_shadow_index: the highest index among the file names of the
\* generation's wal directory that parse; 0 without such a name
current_shadow_index(g) ==
    LET parsed == {parse_wal_path(format_wal_path(k[2])) : k \in {k \in DOMAIN shadow : k[1] = g}}
    IN Max((parsed \ {-1}) \cup {0})

NoInfo ==
    [generation |-> 0, index |-> 0, has_mtime |-> FALSE, wal_size |-> 0,
     shadow_wal_size |-> 0, reason |-> "", restart |-> FALSE]

\* (variant: the last frame of the shadow is not compared with the live WAL)
last_frame_unchecked(sf, k) == FALSE

\* verify: the last frame of the shadow (frame k) and the frame read at the
\* same offset of the live WAL are not equal
last_frame_mismatched(sf, k) == WALFrame_read(wal, k) # WALFrame_read(sf, k)

\* verify, from the point where current_shadow_index has returned index
verify_index(g, index) ==
    LET key == <<g, index>>
        wal_size == align_frame(FileSize(wal))
        base == [NoInfo EXCEPT !.generation = g, !.has_mtime = TRUE,
                               !.wal_size = wal_size, !.index = index]
        sf == shadow[key]
        ssize == align_frame(FileSize(sf))
        sized == [base EXCEPT !.shadow_wal_size = ssize]
        restart == wal.hdr # sf.hdr
        k == FramesBelow(ssize)
    IN IF g = 0 THEN [NoInfo EXCEPT !.reason = "no generation exists"]
       ELSE IF index > MAX_WAL_INDEX THEN [base EXCEPT !.reason = "max index exceeded"]
       ELSE IF key \notin DOMAIN shadow THEN [base EXCEPT !.reason = "no shadow wal"]
       ELSE IF ssize < WAL_HEADER_SIZE THEN [sized EXCEPT !.reason = "short shadow wal"]
       ELSE IF ssize > wal_size
            THEN [sized EXCEPT !.reason = "wal truncated by another process"]
       ELSE IF ssize = WAL_HEADER_SIZE /\ restart
            THEN [sized EXCEPT !.restart = TRUE, !.reason = "wal header only, mismatched"]
       ELSE IF ssize > WAL_HEADER_SIZE /\ last_frame_mismatched(sf, k)
            THEN [sized EXCEPT !.restart = restart,
                               !.reason = "wal overwritten by another process"]
       ELSE [sized EXCEPT !.restart = restart]

verify == verify_index(current_generation, current_shadow_index(current_generation))

\* ------------------------------------------------------------------------
\* Orchestrator (database/database.rs): Database::sync and its callees
\* ------------------------------------------------------------------------
Replicas == 1 .. config.nrep

\* (torn is a ghost: sync_wal appended frames to the shadow while the live
\* WAL ended in a torn frame)
Info0 ==
    [generation |-> 0, index |-> 0, has_mtime |-> FALSE, restart |-> FALSE,
     reason |-> "", changed |-> FALSE, orig |-> 0, new |-> 0,
     hdr1 |-> NoHdr, mode |-> "", ret |-> 0, newgen |-> 0, torn |-> FALSE]

\* the handler returns (Ok or Err): its locals die
Return ==
    /\ pc' = "idle"
    /\ info' = Info0

RemoveKeys(f, K) == [k \in DOMAIN f \ K |-> f[k]]
Put(f, k, v) == [x \in DOMAIN f \cup {k} |-> IF x = k THEN v ELSE f[x]]

\* (variant: no directory is removed)
clean_generations_keeps(dirs, g) == dirs

\* clean_generations: every generations/<g> other than the current one goes
clean_generations(dirs, g) == dirs \cap {g}

\* clean_wal: the lowest replica index, a replica that is in another
\* generation counting as 0; files below that index minus one are removed
clean_wal_min(g) ==
    LET idx(r) == IF rpos[r].generation # g THEN 0 ELSE rpos[r].index
        m == CHOOSE x \in {idx(r) : r \in Replicas} : \A r \in Replicas : x <= idx(r)
    IN IF m = 0 THEN 0 ELSE m - 1

\* clean(): the shadow files afterwards, g being the current generation
\* (parse_wal_path on a name that does not parse makes clean_wal fail; the
\* files that read_dir listed before that name are gone by then)
Clean(files, g, ok) ==
    LET kept == {k \in DOMAIN files : k[1] = g}
        old == {k \in kept : k[2] < clean_wal_min(g)}
        bad == {k \in kept : parse_wal_path(format_wal_path(k[2])) = -1}
    IN IF clean_wal_min(g) = 0 \/ bad = {}
       THEN /\ shadow' = RemoveKeys(files, (DOMAIN files \ kept) \cup old)
            /\ ok = TRUE
       ELSE /\ \E gone \in SUBSET old :
                  shadow' = RemoveKeys(files, (DOMAIN files \ kept) \cup gone)
            /\ ok = FALSE

\* Database::try_create: verify_header_match, then clean
verify_header_match ==
    LET g == current_generation
        key == <<g, current_shadow_index(g)>>
    IN \/ g = 0
       \/ /\ key \in DOMAIN shadow
          /\ wal.hdr # NoHdr
          /\ shadow[key].hdr # NoHdr
          /\ wal.hdr = shadow[key].hdr

Startup ==
    /\ pc = "down"
    /\ genfile' = IF verify_header_match THEN genfile ELSE 0
    /\ gendirs' = clean_generations(gendirs, genfile')
    /\ \E ok \in BOOLEAN : Clean(shadow, genfile', ok)
    /\ Return
    /\ UNCHANGED <<call, restoreVars, envVars, nextGen, genStart, config, tleft, cleft, dbInbox, repVars, sent>>

\* the upsert of _replited_seq: one commit frame, or SQLITE_BUSY while
\* another writer holds the write lock
CanWrite == wlock = "none"
InsertSeq ==
    /\ seq' = 1 - seq
    /\ SqliteWriteFrame(SeqPage, 1, <<1 - seq, 1>>)
    /\ UNCHANGED <<wlock, dbfile, wleft>>

\* sync(), first step: ensure_wal_exists
Tick ==
    /\ pc = "idle"
    /\ tleft > 0
    /\ tleft' = tleft - 1
    /\ sent' = [changed |-> FALSE, to |-> {}]
    /\ IF FileSize(wal) >= WAL_HEADER_SIZE
       THEN pc' = "verify" /\ info' = Info0 /\ UNCHANGED envVars
       ELSE IF CanWrite
       THEN pc' = "verify" /\ info' = Info0 /\ InsertSeq
       ELSE Return /\ UNCHANGED envVars
    /\ UNCHANGED <<call, restoreVars, metaVars, config, cleft, dbInbox, repVars>>

\* sync(): verify and the `changed` flag
Verify ==
    /\ pc = "verify"
    /\ LET v == verify
       IN /\ info' = [info EXCEPT !.generation = v.generation, !.index = v.index,
                        !.has_mtime = v.has_mtime, !.restart = v.restart,
                        !.reason = v.reason,
                        !.changed = (v.wal_size # v.shadow_wal_size \/ v.restart
                                     \/ v.reason # "")]
          /\ pc' = IF v.reason # "" THEN "cg_mkdir" ELSE "sync_wal"
    /\ UNCHANGED <<call, restoreVars, envVars, metaVars, config, tleft, cleft, dbInbox, repVars, sent>>

\* create_generation: Generation::new, the temp file, create_dir_all
CgMkdir ==
    /\ pc = "cg_mkdir"
    /\ nextGen' = nextGen + 1
    /\ genStart' = genStart
    /\ gendirs' = gendirs \cup {nextGen}
    /\ info' = [info EXCEPT !.newgen = nextGen]
    /\ pc' = "cg_create"
    /\ UNCHANGED <<call, restoreVars, envVars, genfile, shadow, config, tleft, cleft, dbInbox, repVars, sent>>

\* init_shadow_wal_file of index 0: the live header is read, File::create
CgCreate ==
    /\ pc = "cg_create"
    /\ IF wal.hdr = NoHdr
       THEN Return /\ UNCHANGED shadow
       ELSE /\ shadow' = Put(shadow, <<info.newgen, 0>>, EmptyFile)
            /\ info' = [info EXCEPT !.hdr1 = wal.hdr]
            /\ pc' = "cg_write"
    /\ UNCHANGED <<call, restoreVars, envVars, genfile, gendirs, nextGen, genStart, config, tleft, cleft, dbInbox, repVars, sent>>

\* init_shadow_wal_file of index 0: the header is written, the frames copied
CgWrite ==
    /\ pc = "cg_write"
    /\ LET c == copy_to_shadow_wal([hdr |-> info.hdr1, frames |-> <<>>, partial |-> 0])
       IN shadow' = Put(shadow, <<info.newgen, 0>>, c.file)
    /\ pc' = "cg_rename"
    /\ UNCHANGED <<call, restoreVars, envVars, genfile, gendirs, nextGen, genStart, config, info, tleft, cleft,
                   dbInbox, repVars, sent>>

\* (variant: the pointer file is replaced before index 0 is initialised)
rename_first == "cg_create"

\* the step of create_generation at which the pointer file is replaced
rename_step == "cg_rename"

\* create_generation: the temp file is renamed over the `generation` file
CgRename ==
    /\ pc = rename_step
    /\ genfile' = info.newgen
    /\ genStart' = Len(hist)
    /\ pc' = "cg_clean"
    /\ UNCHANGED <<call, restoreVars, envVars, gendirs, shadow, nextGen, config, info, tleft, cleft,
                   dbInbox, repVars, sent>>

\* create_generation: clean(); back in sync() the info is re-pointed
CgClean ==
    /\ pc = "cg_clean"
    /\ \E ok \in BOOLEAN :
          /\ gendirs' = clean_generations(gendirs, genfile)
          /\ Clean(shadow, genfile, ok)
          /\ IF ok
             THEN /\ info' = [info EXCEPT !.generation = info.newgen, !.index = 0,
                                          !.restart = FALSE, !.reason = ""]
                  /\ pc' = "sync_wal"
             ELSE Return
    /\ UNCHANGED <<call, restoreVars, envVars, genfile, nextGen, genStart, config, tleft, cleft, dbInbox, repVars, sent>>

\* sync_wal: copy_to_shadow_wal on the current shadow file
SyncWal ==
    /\ pc = "sync_wal"
    /\ LET key == <<info.generation, info.index>>
           c == copy_to_shadow_wal(shadow[key])
       IN IF key \notin DOMAIN shadow \/ ~c.ok
          THEN Return /\ UNCHANGED shadow
          ELSE /\ shadow' = Put(shadow, key, c.file)
               /\ info' = [info EXCEPT !.orig = c.orig, !.new = c.new,
                                        !.torn = (wal.partial > 0 /\ c.file # shadow[key])]
               /\ pc' = IF info.restart THEN "sw_init" ELSE "decide"
    /\ UNCHANGED <<call, restoreVars, envVars, genfile, gendirs, nextGen, genStart, config, tleft, cleft, dbInbox, repVars, sent>>

\* sync_wal with info.restart: the shadow file of index + 1 is started
SwInit ==
    /\ pc = "sw_init"
    /\ IF wal.hdr = NoHdr
       THEN Return /\ UNCHANGED shadow
       ELSE /\ shadow' = Put(shadow, <<info.generation, info.index + 1>>,
                             init_shadow_wal_file.file)
            /\ info' = [info EXCEPT !.new = init_shadow_wal_file.new]
            /\ pc' = "decide"
    /\ UNCHANGED <<call, restoreVars, envVars, genfile, gendirs, nextGen, genStart, config, tleft, cleft, dbInbox, repVars, sent>>

\* (variant: a shadow of one frame is enough for the time rule)
time_rule_one_frame(new_wal_size, has_mtime, elapsed) ==
    /\ config.checkpoint_interval_secs > 0
    /\ has_mtime
    /\ elapsed
    /\ new_wal_size >= calc_wal_size(1)

\* the time rule of decide_checkpoint_mode; has_mtime: info.db_mod_time is
\* Some; elapsed: now - db_mod_time > checkpoint_interval_secs
time_rule(new_wal_size, has_mtime, elapsed) ==
    /\ config.checkpoint_interval_secs > 0
    /\ has_mtime
    /\ elapsed
    /\ new_wal_size > calc_wal_size(1)

\* (variant: the RESTART rule is tried before the TRUNCATE rule)
decide_restart_first(orig_wal_size, new_wal_size, has_mtime, elapsed) ==
    IF config.max_checkpoint_page_number > 0
       /\ new_wal_size >= calc_wal_size(config.max_checkpoint_page_number)
    THEN "RESTART"
    ELSE IF config.truncate_page_number > 0
            /\ orig_wal_size >= calc_wal_size(config.truncate_page_number)
    THEN "TRUNCATE"
    ELSE IF new_wal_size >= calc_wal_size(config.min_checkpoint_page_number)
    THEN "PASSIVE"
    ELSE IF time_rule(new_wal_size, has_mtime, elapsed)
    THEN "PASSIVE"
    ELSE ""

\* decide_checkpoint_mode; elapsed: now - db_mod_time > checkpoint_interval
decide_checkpoint_mode(orig_wal_size, new_wal_size, has_mtime, elapsed) ==
    IF config.truncate_page_number > 0
       /\ orig_wal_size >= calc_wal_size(config.truncate_page_number)
    THEN "TRUNCATE"
    ELSE IF config.max_checkpoint_page_number > 0
            /\ new_wal_size >= calc_wal_size(config.max_checkpoint_page_number)
    THEN "RESTART"
    ELSE IF new_wal_size >= calc_wal_size(config.min_checkpoint_page_number)
    THEN "PASSIVE"
    ELSE IF time_rule(new_wal_size, has_mtime, elapsed)
    THEN "PASSIVE"
    ELSE ""

Decide ==
    /\ pc = "decide"
    /\ \E elapsed \in BOOLEAN :
          LET mode == decide_checkpoint_mode(info.orig, info.new, info.has_mtime, elapsed)
          IN IF mode # ""
             THEN /\ info' = [info EXCEPT !.changed = TRUE, !.mode = mode]
                  /\ pc' = "ck_copy"
             ELSE /\ info' = info
                  /\ pc' = "clean"
    /\ UNCHANGED <<call, restoreVars, envVars, metaVars, config, tleft, cleft, dbInbox, repVars, sent>>

\* do_checkpoint: the header is read, the shadow caught up before the checkpoint
CkCopy ==
    /\ pc = "ck_copy"
    /\ LET index == current_shadow_index(info.generation)
           key == <<info.generation, index>>
           c == copy_to_shadow_wal(shadow[key])
       IN IF wal.hdr = NoHdr \/ key \notin DOMAIN shadow \/ ~c.ok
          THEN Return /\ UNCHANGED shadow
          ELSE /\ shadow' = Put(shadow, key, c.file)
               /\ info' = [info EXCEPT !.hdr1 = wal.hdr, !.index = index]
               /\ pc' = "ck_exec"
    /\ UNCHANGED <<call, restoreVars, envVars, genfile, gendirs, nextGen, genStart, config, tleft, cleft, dbInbox, repVars, sent>>

\* exec_checkpoint: PRAGMA wal_checkpoint(mode) between release and
\* re-acquire of the read lock.  PASSIVE writes back what it can without
\* waiting; RESTART and TRUNCATE need the write lock (SQLITE_BUSY otherwise)
CkExec ==
    /\ pc = "ck_exec"
    /\ \/ \* the checkpoint completes
          /\ info.mode = "PASSIVE" \/ wlock = "none"
          /\ dbfile' = Backfill(dbfile, wal.frames, mx)
          /\ IF info.mode = "TRUNCATE"
             THEN wal' = EmptyFile /\ mx' = 0 /\ ckptDone' = FALSE
             ELSE /\ ckptDone' = (ckptDone \/ (wlock = "none" /\ mx > 0))
                  /\ UNCHANGED <<wal, mx>>
          /\ pc' = "ck_insert" /\ info' = info
       \/ \* readers keep a PASSIVE checkpoint from writing anything back
          /\ info.mode = "PASSIVE"
          /\ pc' = "ck_insert" /\ info' = info
          /\ UNCHANGED <<wal, mx, ckptDone, dbfile>>
       \/ \* SQLITE_BUSY
          /\ info.mode # "PASSIVE"
          /\ Return
          /\ UNCHANGED <<wal, mx, ckptDone, dbfile>>
    /\ UNCHANGED <<call, restoreVars, wtx, wlock, salt, seq, wleft, hist, metaVars, config, tleft,
                   cleft, dbInbox, repVars, sent>>

\* do_checkpoint: the write that makes SQLite start the new WAL
CkInsert ==
    /\ pc = "ck_insert"
    /\ IF CanWrite
       THEN InsertSeq /\ pc' = "ck_hdr2" /\ info' = info
       ELSE Return /\ UNCHANGED envVars
    /\ UNCHANGED <<call, restoreVars, metaVars, config, tleft, cleft, dbInbox, repVars, sent>>

\* where do_checkpoint returns to: sync() or snapshot()
AfterCheckpoint == IF info.ret = 0 THEN "clean" ELSE "snap_send"

\* do_checkpoint: has the WAL been restarted?
CkHdr2 ==
    /\ pc = "ck_hdr2"
    /\ IF wal.hdr = NoHdr THEN Return
       ELSE /\ pc' = IF info.hdr1 = wal.hdr THEN AfterCheckpoint ELSE "ck_lock"
            /\ info' = info
    /\ UNCHANGED <<call, restoreVars, envVars, metaVars, config, tleft, cleft, dbInbox, repVars, sent>>

\* do_checkpoint under the write lock: the tail of the previous WAL is
\* copied, then the shadow file of index + 1 is started
CkLock ==
    /\ pc = "ck_lock"
    /\ LET key == <<info.generation, info.index>>
           c == copy_to_shadow_wal(shadow[key])
           next == <<info.generation, info.index + 1>>
       IN IF ~CanWrite \/ key \notin DOMAIN shadow \/ ~c.ok \/ wal.hdr = NoHdr
          THEN Return /\ UNCHANGED shadow
          ELSE /\ shadow' = Put(Put(shadow, key, c.file), next, init_shadow_wal_file.file)
               /\ pc' = AfterCheckpoint
               /\ info' = info
    /\ UNCHANGED <<call, restoreVars, envVars, genfile, gendirs, nextGen, genStart, config, tleft, cleft, dbInbox, repVars, sent>>

\* wal_generation_position: the end of the current shadow file
wal_generation_position ==
    LET g == current_generation
        index == current_shadow_index(g)
        key == <<g, index>>
    IN [generation |-> g, index |-> index,
        offset |-> IF key \in DOMAIN shadow THEN align_frame(FileSize(shadow[key])) ELSE 0]

NoData == [p \in Pages |-> <<0, 0>>]
DbChanged(pos) == [type |-> "DbChanged", pos |-> pos, data |-> NoData]
SnapshotCmd(pos, data) == [type |-> "Snapshot", pos |-> pos, data |-> data]

\* the replicas the sync cycle sends DbChanged to: sync_notifiers[0]
notified == {1}

\* sync(): clean()
CleanStep ==
    /\ pc = "clean"
    /\ \E ok \in BOOLEAN :
          /\ gendirs' = clean_generations(gendirs, genfile)
          /\ Clean(shadow, genfile, ok)
          /\ IF ok THEN pc' = "notify" /\ info' = info ELSE Return
    /\ UNCHANGED <<call, restoreVars, envVars, genfile, nextGen, genStart, config, tleft, cleft, dbInbox, repVars, sent>>

\* sync(): DbChanged(position) is sent when something changed
Notify ==
    /\ pc = "notify"
    /\ IF info.changed
       THEN /\ \A r \in notified : Len(rInbox[r]) < MaxInbox
            /\ rInbox' = [r \in Replicas |->
                            IF r \in notified
                            THEN Append(rInbox[r], DbChanged(wal_generation_position))
                            ELSE rInbox[r]]
            /\ sent' = [changed |-> TRUE, to |-> notified]
       ELSE /\ UNCHANGED rInbox
            /\ sent' = [changed |-> FALSE, to |-> {}]
    /\ Return
    /\ UNCHANGED <<call, restoreVars, envVars, metaVars, config, tleft, cleft, dbInbox, rpos, rstate, rpc, remote>>

\* handle_db_snapshot_command: snapshot() starts with checkpoint(PASSIVE)
HandleSnapshot ==
    /\ pc = "idle"
    /\ dbInbox # <<>>
    /\ dbInbox' = Tail(dbInbox)
    /\ info' = [Info0 EXCEPT !.generation = current_generation, !.mode = "PASSIVE",
                             !.ret = Head(dbInbox)]
    /\ pc' = "ck_copy"
    /\ UNCHANGED <<call, restoreVars, envVars, metaVars, config, tleft, cleft, repVars, sent>>

\* snapshot() after the checkpoint: position, compressed database file;
\* handle_db_snapshot_command sends both to the requesting replica
SnapSend ==
    /\ pc = "snap_send"
    /\ IF current_generation = 0
       THEN UNCHANGED rInbox
       ELSE /\ Len(rInbox[info.ret]) < MaxInbox
            /\ rInbox' = [rInbox EXCEPT ![info.ret] =
                             Append(@, SnapshotCmd(wal_generation_position, dbfile))]
    /\ Return
    /\ UNCHANGED <<call, restoreVars, envVars, metaVars, config, tleft, cleft, dbInbox, rpos, rstate, rpc,
                   remote, sent>>

\* the replicator process dies; the files stay as they are
Crash ==
    /\ pc # "down"
    /\ cleft > 0
    /\ cleft' = cleft - 1
    /\ pc' = "down"
    /\ info' = Info0
    /\ dbInbox' = <<>>
    /\ rpos' = [r \in Replicas |-> EmptyPos]
    /\ rstate' = [r \in Replicas |-> "WaitDbChanged"]
    /\ rpc' = [r \in Replicas |-> "idle"]
    /\ rInbox' = [r \in Replicas |-> <<>>]
    /\ UNCHANGED <<call, restoreVars, envVars, metaVars, config, tleft, remote, sent>>

\* ------------------------------------------------------------------------
\* Replica worker (sync/replicate.rs, sync/shadow_wal_reader.rs,
\* storage/storage_client.rs)
\* ------------------------------------------------------------------------
\* the two names a StorageClient holds of the database: db_name is the last
\* component of db_path; they differ when the configured path has a directory
db_name == "name"
db_path == IF config.db_has_dir THEN "path" ELSE db_name

EmptyStore == [snaps |-> << >>, segs |-> << >>]

\* decompressed length of a WAL segment object
SegLen(seg) ==
    (IF seg.hdr = NoHdr THEN 0 ELSE WAL_HEADER_SIZE) + Len(seg.frames) * FrameSize

\* (variant: a listing that names a snapshot whatever the store holds)
snapshots_any(store, g) == {0}

\* StorageClient::snapshots: the indexes listed, or {-1} when a name of the
\* listing does not parse
snapshots(store, g) ==
    LET idx == {parse_snapshot_path(format_snapshot_path(k[2])) :
                   k \in {k \in DOMAIN store.snaps : k[1] = g}}
    IN IF -1 \in idx THEN {-1} ELSE idx

\* StorageClient::wal_segments: the (index, offset) pairs listed under
\* db_name, or {<<-1, -1>>} when a name of the listing does not parse
wal_segments(store, g) ==
    LET segs == {parse_wal_segment_path(format_walsegment_path(k[3], k[4])) :
                    k \in {k \in DOMAIN store.segs : k[1] = db_name /\ k[2] = g}}
    IN IF <<-1, -1>> \in segs THEN {<<-1, -1>>} ELSE segs

\* StorageClient::write_wal_segment: the object is written under db_path
write_wal_segment(store, pos, seg) ==
    [store EXCEPT !.segs = Put(@, <<db_path, pos.generation, pos.index, pos.offset>>, seg)]

\* StorageClient::write_snapshot
write_snapshot(store, pos, data) ==
    [store EXCEPT !.snaps = Put(@, <<pos.generation, pos.index>>, data)]

\* Replicate::max_snapshot: the highest snapshot index
max_snapshot(S) == Max(S)

\* Replicate::max_wal_segment: the first segment of the listing whose index
\* is the highest one; the order of a listing is the store's, so any of them
max_wal_segment(S) == {sg \in S : \A o \in S : o[1] <= sg[1]}

\* (variant: the WAL header is counted once more at the end of the last
\* segment)
position_past_segment(store, g) ==
    LET segs == wal_segments(store, g)
    IN IF segs = {}
       THEN {[generation |-> g, index |-> max_snapshot(snapshots(store, g)), offset |-> 0]}
       ELSE {[generation |-> g, index |-> sg[1],
              offset |-> sg[2] + SegLen(store.segs[<<db_name, g, sg[1], sg[2]>>])
                           + WAL_HEADER_SIZE] :
                sg \in max_wal_segment(segs)}

\* calculate_generation_position: the positions it can return
calculate_generation_position(store, g) ==
    LET segs == wal_segments(store, g)
    IN IF segs = {}
       THEN {[generation |-> g, index |-> max_snapshot(snapshots(store, g)), offset |-> 0]}
       ELSE {[generation |-> g, index |-> sg[1],
              offset |-> sg[2] + SegLen(store.segs[<<db_name, g, sg[1], sg[2]>>])] :
                sg \in max_wal_segment(segs)}

\* (variant: Replicate::sync looks at the offset only)
returns_on_offset(pos, state) == pos.offset = 0

\* the two early returns of Replicate::sync
returns_early(pos, state) == state = "WaitSnapshot" \/ pos.offset = 0

\* Replicate::sync(pos) up to the segment loop; state: self.state on entry;
\* reset: the caller resets the position when sync returns an Err
ReplicaSync(r, pos, state, reset, store) ==
    IF returns_early(pos, state)
    THEN /\ rstate' = [rstate EXCEPT ![r] = state]
         /\ UNCHANGED <<rpos, rpc, dbInbox>>
    ELSE IF pos.generation = rpos[r].generation
    THEN /\ rstate' = [rstate EXCEPT ![r] = state]
         /\ rpc' = [rpc EXCEPT ![r] = "loop"]
         /\ UNCHANGED <<rpos, dbInbox>>
    ELSE \/ \* Err: the store fails, or a listed name does not parse
            /\ rstate' = [rstate EXCEPT ![r] = state]
            /\ rpos' = IF reset THEN [rpos EXCEPT ![r] = EmptyPos] ELSE rpos
            /\ UNCHANGED <<rpc, dbInbox>>
         \/ \* no snapshot of the generation: one is requested
            /\ snapshots(store, pos.generation) = {}
            /\ Len(dbInbox) < MaxInbox
            /\ dbInbox' = Append(dbInbox, r)
            /\ rstate' = [rstate EXCEPT ![r] = "WaitSnapshot"]
            /\ UNCHANGED <<rpos, rpc>>
         \/ \* the position is recomputed from the remote listing
            /\ snapshots(store, pos.generation) \notin {{}, {-1}}
            /\ wal_segments(store, pos.generation) # {<<-1, -1>>}
            /\ \E p \in calculate_generation_position(store, pos.generation) :
                  rpos' = [rpos EXCEPT ![r] = p]
            /\ rstate' = [rstate EXCEPT ![r] = state]
            /\ rpc' = [rpc EXCEPT ![r] = "loop"]
            /\ UNCHANGED dbInbox

\* Replicate::command(DbChanged(pos)): an Err of sync resets the position
RecvDbChanged(r) ==
    /\ rpc[r] = "idle"
    /\ rInbox[r] # <<>>
    /\ Head(rInbox[r]).type = "DbChanged"
    /\ rInbox' = [rInbox EXCEPT ![r] = Tail(@)]
    /\ ReplicaSync(r, Head(rInbox[r]).pos, rstate[r], TRUE, remote[r])
    /\ UNCHANGED <<call, restoreVars, envVars, metaVars, config, pc, info, tleft, cleft, remote, sent>>

\* (variant: the replica keeps waiting for a snapshot)
keeps_waiting == "WaitSnapshot"

\* the state sync_snapshot sets once the snapshot is written
after_snapshot == "WaitDbChanged"

\* Replicate::command(Snapshot(pos, data)): sync_snapshot
RecvSnapshot(r) ==
    /\ rpc[r] = "idle"
    /\ rInbox[r] # <<>>
    /\ Head(rInbox[r]).type = "Snapshot"
    /\ rInbox' = [rInbox EXCEPT ![r] = Tail(@)]
    /\ LET cmd == Head(rInbox[r])
       IN IF cmd.pos.offset = 0
          THEN UNCHANGED <<rpos, rstate, rpc, dbInbox, remote>>
          ELSE \/ \* write_snapshot fails
                  UNCHANGED <<rpos, rstate, rpc, dbInbox, remote>>
               \/ /\ remote' = [remote EXCEPT ![r] = write_snapshot(@, cmd.pos, cmd.data)]
                  /\ ReplicaSync(r, cmd.pos, after_snapshot, FALSE,
                                 write_snapshot(remote[r], cmd.pos, cmd.data))
    /\ UNCHANGED <<call, restoreVars, envVars, metaVars, config, pc, info, tleft, cleft, sent>>

\* (variant: the size of the file is taken without its header)
ReaderWithoutHeader(pos) ==
    LET key == <<pos.generation, pos.index>>
        size == align_frame(FileSize(shadow[key])) - WAL_HEADER_SIZE
    IN IF key \notin DOMAIN shadow THEN [err |-> "notfound", left |-> 0]
       ELSE IF pos.offset > size THEN [err |-> "toohigh", left |-> 0]
       ELSE [err |-> "", left |-> size - pos.offset]

\* ShadowWalReader::new(pos): "notfound", "toohigh", or the bytes left
ReaderNew(pos) ==
    LET key == <<pos.generation, pos.index>>
        size == align_frame(FileSize(shadow[key]))
    IN IF key \notin DOMAIN shadow THEN [err |-> "notfound", left |-> 0]
       ELSE IF pos.offset > size THEN [err |-> "toohigh", left |-> 0]
       ELSE [err |-> "", left |-> size - pos.offset]

\* ShadowWalReader::try_create(pos): the reader's position and bytes left,
\* err "eof" standing for UNEXPECTED_EOF_ERROR
ShadowWalReader(pos) ==
    LET first == ReaderNew(pos)
        next == [pos EXCEPT !.index = pos.index + 1, !.offset = 0]
        second == ReaderNew(next)
    IN IF first.err # "" THEN [err |-> first.err, pos |-> pos, left |-> 0]
       ELSE IF first.left > 0 THEN [err |-> "", pos |-> pos, left |-> first.left]
       ELSE IF second.err = "notfound" THEN [err |-> "eof", pos |-> next, left |-> 0]
       ELSE [err |-> second.err, pos |-> next, left |-> second.left]

\* the salt check of sync_wal's frame loop: the salt carried along starts at
\* s0 (0: none yet) and every frame must repeat the salt of the one before
RECURSIVE SaltsAgree(_, _)
SaltsAgree(frames, s0) ==
    IF frames = <<>> THEN TRUE
    ELSE IF s0 # 0 /\ s0 # Head(frames).salt THEN FALSE
    ELSE SaltsAgree(Tail(frames), Head(frames).salt)

\* Replicate::sync_wal, one round of the loop of Replicate::sync: the loop
\* ends on UNEXPECTED_EOF_ERROR and goes round again on every other error
LoopStep(r) ==
    /\ rpc[r] = "loop"
    /\ LET rd == ShadowWalReader(rpos[r])
           sf == shadow[<<rd.pos.generation, rd.pos.index>>]
           whole == rd.pos.offset = 0
           first == FramesBelow(rd.pos.offset) + 1
           last == FramesBelow(rd.pos.offset + rd.left)
           frames == SubSeq(sf.frames, first, last)
           seg == [hdr |-> IF whole THEN sf.hdr ELSE NoHdr, frames |-> frames]
           end == [rd.pos EXCEPT !.offset = rd.pos.offset + rd.left]
       IN \/ \* no next shadow file: the loop ends
             /\ rd.err = "eof"
             /\ rpc' = [rpc EXCEPT ![r] = "idle"]
             /\ UNCHANGED <<rpos, remote>>
          \/ \* any other error (the reader, the header or a frame is refused,
             \* the upload fails): nothing changes and the loop goes round
             /\ rd.err # "eof"
             /\ UNCHANGED <<rpos, rpc, remote>>
          \/ \* the segment is uploaded and the position moves to its end
             /\ rd.err = ""
             /\ ~(whole /\ rd.left < WAL_HEADER_SIZE)
             /\ SaltsAgree(frames, IF whole THEN sf.hdr.salt ELSE 0)
             /\ remote' = [remote EXCEPT ![r] = write_wal_segment(@, rd.pos, seg)]
             /\ rpos' = [rpos EXCEPT ![r] = end]
             /\ UNCHANGED rpc
    /\ UNCHANGED <<call, restoreVars, envVars, metaVars, dbVars, rstate, rInbox, sent>>

\* ------------------------------------------------------------------------
\* The system
\* ------------------------------------------------------------------------
\* the configurations of the runs: one or two replicas, the database given
\* by a bare file name or by a path with a directory; the checkpoint
\* thresholds are counted in pages
Configs ==
    {[nrep |-> n, db_has_dir |-> d, min_checkpoint_page_number |-> MinPages,
      max_checkpoint_page_number |-> MinPages + 1,
      truncate_page_number |-> MinPages + 2, checkpoint_interval_secs |-> 60] :
        n \in 1 .. MaxReplicas, d \in BOOLEAN}

\* the WAL after the connection has created its two tables: one commit frame
InitFrame == MakeFrame(SeqPage, 1, <<0, 1>>, 1, MakeHeader(1).ck)

\* the database and an empty meta directory: the replicator's first start
Fresh ==
    [wal |-> [hdr |-> MakeHeader(1), frames |-> <<InitFrame>>, partial |-> 0],
     salt |-> 1, seq |-> 0, dbfile |-> NoData, hist |-> <<InitFrame>>,
     genfile |-> 0, gendirs |-> {}, shadow |-> << >>, nextGen |-> 1]

\* the frame do_checkpoint's upsert writes into the restarted WAL
RotFrame == MakeFrame(SeqPage, 1, <<1, 1>>, 2, MakeHeader(2).ck)

\* what a replicator that has rotated the shadow WAL of generation 1 for the
\* ninth time leaves on disk: the old WAL in shadow file 8, the restarted
\* WAL, checkpointed, with the upsert's frame in shadow file 9 (clean_wal
\* has removed the files below)
Rotated ==
    [wal |-> [hdr |-> MakeHeader(2), frames |-> <<RotFrame>>, partial |-> 0],
     salt |-> 2, seq |-> 1, dbfile |-> Backfill(NoData, <<InitFrame>>, 1),
     hist |-> <<InitFrame, RotFrame>>,
     genfile |-> 1, gendirs |-> {1},
     shadow |-> (<<1, RotIndex - 1>> :> [hdr |-> MakeHeader(1), frames |-> <<InitFrame>>,
                                         partial |-> 0])
                @@ (<<1, RotIndex>> :> [hdr |-> MakeHeader(2), frames |-> <<RotFrame>>,
                                        partial |-> 0]),
     nextGen |-> 2]

InitWith(configs, disks, writes, ticks, crashes) ==
    /\ \E d \in disks :
          /\ wal = d.wal
          /\ salt = d.salt
          /\ seq = d.seq
          /\ dbfile = d.dbfile
          /\ hist = d.hist
          /\ genfile = d.genfile
          /\ gendirs = d.gendirs
          /\ shadow = d.shadow
          /\ nextGen = d.nextGen
    /\ mx = 1
    /\ wtx = 0
    /\ wlock = "none"
    /\ ckptDone = FALSE
    /\ wleft = writes
    /\ genStart = 0
    /\ config \in configs
    /\ pc = "down"
    /\ info = Info0
    /\ tleft = ticks
    /\ cleft = crashes
    /\ dbInbox = <<>>
    /\ rpos = [r \in Replicas |-> EmptyPos]
    /\ rstate = [r \in Replicas |-> "WaitDbChanged"]
    /\ rpc = [r \in Replicas |-> "idle"]
    /\ rInbox = [r \in Replicas |-> <<>>]
    /\ remote = [r \in Replicas |-> EmptyStore]
    /\ sent = [changed |-> FALSE, to |-> {}]
    /\ options = NoOptions
    /\ output = NoFile
    /\ temp = NoFile
    /\ rs = RsOff
    /\ call = NoCall

Writer ==
    /\ \/ WriterFrame
       \/ WriterTorn
       \/ WriterRollback
    /\ UNCHANGED <<call, restoreVars, metaVars, dbVars, repVars, sent>>

Replica == \E r \in Replicas : RecvDbChanged(r) \/ RecvSnapshot(r) \/ LoopStep(r)

\* the steps of Database::sync and of create_generation
Cycle ==
    \/ Startup
    \/ Tick
    \/ Verify
    \/ CgMkdir
    \/ CgCreate
    \/ CgWrite
    \/ CgRename
    \/ CgClean
    \/ SyncWal
    \/ Decide
    \/ CkCopy
    \/ CkExec
    \/ CkInsert
    \/ CkHdr2
    \/ CkLock
    \/ CleanStep
    \/ Notify

\* the replicator with its replicas beside the other writers of the database
Init == InitWith(Configs, {Fresh}, RepWrites, MaxTicks, 0)

Next ==
    \/ Cycle
    \/ SwInit
    \/ HandleSnapshot
    \/ SnapSend
    \/ Writer
    \/ Replica

Spec == Init /\ [][Next]_vars

\* the orchestrator and the other writers alone (a single replica that no
\* command reaches), also when the process dies and starts again, from a
\* first start and from the files of a generation that has rotated before
InitDb ==
    InitWith({c \in Configs : c.nrep = 1 /\ ~c.db_has_dir}, {Fresh, Rotated},
             MaxWrites, MaxTicks, MaxCrashes)

NextDb ==
    \/ Cycle
    \/ SwInit
    \/ Writer
    \/ Crash

SpecDb == InitDb /\ [][NextDb]_vars

\* the replicator with one replica and no other writer, the process dying
\* and starting again
InitRestart ==
    InitWith({c \in Configs : c.nrep = 1}, {Fresh}, 0, RestartTicks, MaxCrashes)

NextRestart ==
    \/ Cycle
    \/ HandleSnapshot
    \/ SnapSend
    \/ Replica
    \/ Crash

SpecRestart == InitRestart /\ [][NextRestart]_vars

\* the replicator with one replica next to another writer, the process dying
\* and starting again
InitCrash ==
    InitWith({c \in Configs : c.nrep = 1 /\ ~c.db_has_dir}, {Fresh}, RepWrites, MaxTicks,
             MaxCrashes)

NextCrash ==
    \/ Next
    \/ Crash

SpecCrash == InitCrash /\ [][NextCrash]_vars

\* the replicator with one replica next to another writer over three sync
\* cycles: long enough for a second generation to start while the replica
\* holds a cursor in the first
InitCycles ==
    InitWith({c \in Configs : c.nrep = 1 /\ ~c.db_has_dir}, {Fresh}, RepWrites,
             RestartTicks, 0)

\* the other writer of these runs has one table of one page and one value to
\* put into it: its frame is written whole (committed or not), torn, or
\* rolled back, at any point of the three cycles
WriterOwnPage ==
    /\ wleft > 0
    /\ \E pgno \in Pages \ {SeqPage}, dbsize \in {0, 1}, data \in {<<1, 0>>} :
          SqliteWriteFrame(pgno, dbsize, data)
    /\ wlock' = IF wtx' = 0 THEN "none" ELSE "writer"
    /\ wleft' = wleft - 1
    /\ UNCHANGED <<dbfile, seq>>

WriterCycles ==
    /\ \/ WriterOwnPage
       \/ WriterTorn
       \/ WriterRollback
    /\ UNCHANGED <<call, restoreVars, metaVars, dbVars, repVars, sent>>

NextCycles ==
    \/ Cycle
    \/ SwInit
    \/ HandleSnapshot
    \/ SnapSend
    \/ WriterCycles
    \/ Replica

SpecCycles == InitCycles /\ [][NextCycles]_vars

\* ------------------------------------------------------------------------
\* Properties
\* ------------------------------------------------------------------------
ShadowKeys(g) == {k \in DOMAIN shadow : k[1] = g}
TopIndex(g) == Max({k[2] : k \in ShadowKeys(g)})

\* the frames of the shadow files of generation g, in index order up to i
RECURSIVE ShadowConcat(_, _)
ShadowConcat(g, i) ==
    IF i < 0 THEN <<>>
    ELSE ShadowConcat(g, i - 1)
         \o (IF <<g, i>> \in DOMAIN shadow THEN shadow[<<g, i>>].frames ELSE <<>>)

RECURSIVE IsSubseq(_, _)
IsSubseq(a, b) ==
    IF a = <<>> THEN TRUE
    ELSE IF b = <<>> THEN FALSE
    ELSE IF Head(a) = Head(b) THEN IsSubseq(Tail(a), Tail(b))
    ELSE IsSubseq(a, Tail(b))

IsPrefix(a, b) == Len(a) <= Len(b) /\ SubSeq(b, 1, Len(a)) = a

\* the frames committed since the current generation started whose WAL cycle
\* the shadow has rotated away from
RotatedAway(g) ==
    LET top == shadow[<<g, TopIndex(g)>>].hdr.salt
        Old(f) == f.salt < top
    IN SelectSeq(SubSeq(hist, genStart + 1, Len(hist)), Old)

\* C1: within one generation the shadow files concatenated in index order
\* contain every frame committed to the live WAL since the generation
\* started, in commit order: once the shadow has rotated to the next WAL, no
\* committed frame of the WAL before is missing from it.
C1_NoCommittedFrameMissing ==
    (genfile # 0 /\ ShadowKeys(genfile) # {})
        => IsSubseq(RotatedAway(genfile), ShadowConcat(genfile, TopIndex(genfile)))

\* SQLite's recovery of a WAL file: the frames that carry the header's salt
\* and continue its checksum chain, up to the last commit frame
RECURSIVE ValidPrefix(_, _, _)
ValidPrefix(frames, s, ck) ==
    IF frames = <<>> THEN <<>>
    ELSE LET f == Head(frames)
         IN IF f.salt # s \/ FrameChecksum(f.pgno, f.dbsize, f.data, ck) # f.ck THEN <<>>
            ELSE <<f>> \o ValidPrefix(Tail(frames), s, f.ck)

Recover(db, hdr, frames) ==
    LET valid == ValidPrefix(frames, hdr.salt, hdr.ck)
    IN IF hdr = NoHdr THEN db ELSE Backfill(db, valid, LastCommit(valid))

\* the segments of (g, i) the restore reads, in offset order, concatenated
RECURSIVE SegConcat(_, _, _, _)
SegConcat(store, g, i, offsets) ==
    IF offsets = {} THEN <<>>
    ELSE LET o == CHOOSE x \in offsets : \A y \in offsets : x <= y
         IN store.segs[<<db_name, g, i, o>>].frames \o SegConcat(store, g, i, offsets \ {o})

\* apply_wal_frames: index after index, the WAL file is written and
\* checkpointed into the database
RECURSIVE ApplyIndexes(_, _, _, _)
ApplyIndexes(store, g, indexes, db) ==
    IF indexes = {} THEN db
    ELSE LET i == CHOOSE x \in indexes : \A y \in indexes : x <= y
             offsets == {sg[2] : sg \in {sg \in wal_segments(store, g) : sg[1] = i}}
             hdr == store.segs[<<db_name, g, i, 0>>].hdr
         IN ApplyIndexes(store, g, indexes \ {i},
                         Recover(db, hdr, SegConcat(store, g, i, offsets)))

\* restore_info and Restore::run on the generation the replica is in: the
\* restored database, or NoRestore when nothing is restored
NoRestore == <<>>

Restore(store, g) ==
    LET snaps == snapshots(store, g)
        segs == wal_segments(store, g)
        snap == max_snapshot(snaps)
        used == {sg \in segs : sg[1] >= snap}
        indexes == {sg[1] : sg \in used}
    IN IF snaps = {} \/ snaps = {-1} \/ segs = {<<-1, -1>>} THEN NoRestore
       ELSE IF \E i \in indexes : <<i, 0>> \notin used THEN NoRestore
       ELSE ApplyIndexes(store, g, indexes, store.snaps[<<g, snap>>])

\* the source database after the first n commits
DbAt(n) == Backfill(NoData, hist, n)

\* the last frame a replica has uploaded
LastUploaded(r) == shadow[<<rpos[r].generation, rpos[r].index>>].frames[FramesBelow(rpos[r].offset)]

\* a replica that has uploaded frames of the current generation and waits
Uploaded(r) ==
    /\ rpc[r] = "idle"
    /\ rpos[r].generation = genfile
    /\ genfile # 0
    /\ <<genfile, rpos[r].index>> \in DOMAIN shadow
    /\ rpos[r].offset > WAL_HEADER_SIZE
    /\ rpos[r].offset <= FileSize(shadow[<<genfile, rpos[r].index>>])

SegsOf(store, root, g, i) ==
    {k \in DOMAIN store.segs : k[1] = root /\ k[2] = g /\ k[3] = i}

\* the segments of one index form a chain from offset 0
Chain(store, K) ==
    /\ \E k \in K : k[4] = 0
    /\ \A k \in K :
          LET end == k[4] + SegLen(store.segs[k])
          IN \/ \A o \in K : o[4] <= k[4]
             \/ \E o \in K : o[4] = end
    /\ \A k, o \in K :
          k[4] < o[4] => k[4] + SegLen(store.segs[k]) <= o[4]

C4_SnapshotBeforeSegment ==
    \A r \in Replicas :
        \A k \in DOMAIN remote[r].segs :
            \E sn \in DOMAIN remote[r].snaps : sn[1] = k[2]

C4_Witness ==
    \E r \in Replicas : DOMAIN remote[r].segs # {}

\* C5: a sync cycle in which something changed and that succeeds has sent
\* DbChanged to the command channel of each of the N configured replicas.
C5_EveryReplicaNotified ==
    sent.changed => sent.to = Replicas

\* C6: every shadow WAL file has size 32 + k * (24 + page_size): no partial
\* frame is appended, also when the live WAL ends in a torn frame.  (At the
\* step between File::create and the header write of create_generation, and
\* after a crash there until the next start clears it, the file of the
\* generation under construction is still empty.)
C6_WholeFrames ==
    pc \notin {"cg_write", "down"} =>
        \A k \in DOMAIN shadow :
            /\ FileSize(shadow[k]) >= WAL_HEADER_SIZE
            /\ (FileSize(shadow[k]) - WAL_HEADER_SIZE) % FrameSize = 0

\* sync_wal has appended frames from a live WAL that ends in a torn frame
C6_Witness ==
    /\ pc = "decide"
    /\ info.torn

\* C7: the shadow grows by whole committed transactions only: what
\* copy_to_shadow_wal appends ends with a commit frame, so every shadow file
\* that holds frames ends with one.
C7_EndsWithCommit ==
    \A k \in DOMAIN shadow :
        shadow[k].frames # <<>> => shadow[k].frames[Len(shadow[k].frames)].dbsize # 0

\* C8: shadow WAL files are append-only: a step leaves every shadow file it
\* does not delete with its old content as a prefix of the new.
C8_AppendOnly ==
    [][\A k \in DOMAIN shadow \cap DOMAIN shadow' :
          /\ shadow[k].hdr # NoHdr => shadow'[k].hdr = shadow[k].hdr
          /\ IsPrefix(shadow[k].frames, shadow'[k].frames)]_vars

\* C9 as stated: the pointer file is absent, or it names a generation whose
\* directory exists and whose index-0 shadow WAL holds a well-formed header.
C9_PointerNamesIndex0 ==
    genfile # 0 =>
        /\ genfile \in gendirs
        /\ <<genfile, 0>> \in DOMAIN shadow
        /\ shadow[<<genfile, 0>>].hdr # NoHdr

\* C9: at every point in time, a crash after any step of create_generation
\* included, the pointer file is absent, or it names a generation whose
\* directory exists and holds a shadow WAL file with a well-formed header;
\* the file of index 0, as long as clean_wal has not removed it, is
\* well-formed.
C9_PointerNamesInitialised ==
    genfile # 0 =>
        /\ genfile \in gendirs
        /\ \E k \in ShadowKeys(genfile) : shadow[k].hdr # NoHdr
        /\ <<genfile, 0>> \in DOMAIN shadow => shadow[<<genfile, 0>>].hdr # NoHdr

\* a crash inside create_generation has left the directory of a generation
\* the pointer does not name, next to the one it names
C9_Witness ==
    /\ pc = "down"
    /\ genfile # 0
    /\ \E g \in gendirs : g # genfile

\* C10: when create_generation returns successfully, current_generation()
\* is the new id and no other generations/<g> exists; when it fails before
\* the rename, current_generation() is what it was.
C10_CreateGeneration ==
    [][/\ (pc = "cg_clean" /\ pc' = "sync_wal")
            => (current_generation' = info.newgen /\ gendirs' = {info.newgen})
       /\ (pc \in {"cg_mkdir", "cg_create", "cg_write"} /\ pc' = "idle")
            => current_generation' = current_generation]_vars

C10_Witness ==
    /\ pc = "sync_wal"
    /\ genfile = 2
    /\ gendirs = {2}

\* the step of replica r takes a command of the given type off its channel
Handles(r, type) ==
    /\ rpc[r] = "idle"
    /\ rInbox[r] # <<>>
    /\ Head(rInbox[r]).type = type
    /\ rInbox'[r] = Tail(rInbox[r])
    /\ pc' # "down"

\* the handling of the command replica r takes off its channel fails: the
\* snapshot is not written; or sync returns early with an error, neither
\* reaching the segment loop nor requesting a snapshot
HandlingFails(r) ==
    LET pos == Head(rInbox[r]).pos
    IN \/ /\ Handles(r, "Snapshot")
          /\ pos.offset # 0
          /\ \/ <<pos.generation, pos.index>> \notin DOMAIN remote'[r].snaps
             \/ rpc'[r] = "idle" /\ dbInbox' = dbInbox
       \/ /\ Handles(r, "DbChanged")
          /\ rstate[r] = "WaitDbChanged"
          /\ pos.offset # 0
          /\ pos.generation # rpos[r].generation
          /\ rpc'[r] = "idle" /\ dbInbox' = dbInbox

\* C19: whenever the handling of a DbChanged or of a Snapshot command fails
\* in a replica worker, the replica's cursor is the empty position when the
\* handling ends, before the next command is taken.
C19_ErrorResetsCursor ==
    [][\A r \in Replicas : HandlingFails(r) => rpos'[r] = EmptyPos]_vars

MaxGen == 2

\* restore_info: the directories listed under the generations directory of
\* db_name
remote_generations(store) ==
    {k[1] : k \in DOMAIN store.snaps}
        \cup {k[2] : k \in {k \in DOMAIN store.segs : k[1] = db_name}}

\* StorageClient::max_snapshot: Err when a listed name does not parse, None
\* without a snapshot, else the highest index listed
StorageClient_max_snapshot(store, g) ==
    LET idx == {parse_snapshot_path(format_snapshot_path(k[2])) :
                   k \in {k \in DOMAIN store.snaps : k[1] = g}}
    IN IF -1 \in idx THEN [err |-> "InvalidPath", some |-> FALSE, index |-> 0]
       ELSE IF idx = {} THEN [err |-> "", some |-> FALSE, index |-> 0]
       ELSE [err |-> "", some |-> TRUE, index |-> Max(idx)]

\* the sort of restore_wal_segments_of: by index, then by offset
RECURSIVE sort_by(_)
sort_by(S) ==
    IF S = {} THEN <<>>
    ELSE LET m == CHOOSE x \in S :
                     \A y \in S : x[1] < y[1] \/ (x[1] = y[1] /\ x[2] <= y[2])
         IN <<m>> \o sort_by(S \ {m})

\* BTreeMap::into_iter().collect(): the (index, offsets) pairs in key order
RECURSIVE collect(_)
collect(m) ==
    IF DOMAIN m = {} THEN <<>>
    ELSE LET i == CHOOSE x \in DOMAIN m : \A y \in DOMAIN m : x <= y
         IN << <<i, m[i]>> >> \o collect(RemoveKeys(m, {i}))

\* (variant: a group may start at any offset)
missing_initial_never(offset) == FALSE

\* the first segment of an index group must be the one of offset 0
missing_initial(offset) == offset # 0

\* the loop of restore_wal_segments_of over the sorted listing; m is the
\* BTreeMap built so far; at: the generation, index and offset the error
\* message names
RECURSIVE PlanFold(_, _, _, _)
PlanFold(segs, g, snapshot_index, m) ==
    IF segs = <<>> THEN [err |-> "", at |-> <<>>, plan |-> collect(m)]
    ELSE LET index == Head(segs)[1]
             offset == Head(segs)[2]
             bad == [err |-> "InvalidWalSegmentError", at |-> <<g, index, offset>>,
                     plan |-> <<>>]
         IN IF index < snapshot_index THEN PlanFold(Tail(segs), g, snapshot_index, m)
            ELSE IF index \in DOMAIN m
            THEN IF m[index][Len(m[index])] >= offset THEN bad
                 ELSE PlanFold(Tail(segs), g, snapshot_index,
                               Put(m, index, Append(m[index], offset)))
            ELSE IF missing_initial(offset) THEN bad
            ELSE PlanFold(Tail(segs), g, snapshot_index, Put(m, index, <<offset>>))

\* StorageClient::restore_wal_segments_of(snapshot)
restore_wal_segments_of(store, g, snapshot_index) ==
    LET listing == wal_segments(store, g)
    IN IF listing = {<<-1, -1>>} THEN [err |-> "InvalidPath", at |-> <<>>, plan |-> <<>>]
       ELSE PlanFold(sort_by(listing), g, snapshot_index, << >>)

\* the loop of restore_info over the generations, newest first
RECURSIVE RestoreInfoFrom(_, _)
RestoreInfoFrom(store, gens) ==
    IF gens = {} THEN NoRestoreInfo
    ELSE LET g == Max(gens)
             snapshot == StorageClient_max_snapshot(store, g)
             segs == restore_wal_segments_of(store, g, snapshot.index)
         IN IF snapshot.err # "" THEN [NoRestoreInfo EXCEPT !.err = snapshot.err]
            ELSE IF ~snapshot.some THEN RestoreInfoFrom(store, gens \ {g})
            ELSE IF segs.err = ""
            THEN [err |-> "", some |-> TRUE, generation |-> g, index |-> snapshot.index,
                  wal_segments |-> segs.plan]
            ELSE RestoreInfoFrom(store, gens \ {g})

\* StorageClient::restore_info
restore_info(store) == RestoreInfoFrom(store, remote_generations(store))

\* Command::run of the restore command: the result of run_restore is dropped
Command_run(result) == "Ok"

\* the exit code of the process: main returns what Command::run returns
ExitCode(result) == IF Command_run(result) = "Ok" THEN 0 ELSE 1

\* RestoreClient::run(overwrite): the check is made on the database path of
\* the configuration
RestoreClient_run(overwrite, db_exists) ==
    IF ~overwrite /\ db_exists THEN "OverwriteDbError" ELSE "Ok"

\* the run ends: the locals die, the NamedTempFile is dropped
RsEnd(result) ==
    /\ rs' = [rs EXCEPT !.pc = "done", !.result = result]
    /\ temp' = NoFile

\* Restore::run, first step: the output path must not exist
RsExists ==
    /\ rs.pc = "exists"
    /\ IF output # NoFile
       THEN RsEnd("OverwriteDbError")
       ELSE rs' = [rs EXCEPT !.pc = "decide"] /\ temp' = temp
    /\ UNCHANGED <<call, envVars, metaVars, dbVars, repVars, sent, options, output>>

\* (variant: of two candidates of the same generation the later one is kept)
newer_or_same(a, b) == a >= b

\* decide_restore_info: is generation a newer than generation b?
newer(a, b) == a > b

\* where Restore::run goes on when the loop of decide_restore_info has ended
AfterDecide(k, latest) ==
    IF k <= config.nrep THEN "decide"
    ELSE IF latest.some THEN "snapshot"
    ELSE "done"

\* decide_restore_info: one round of the loop over the configured replicas;
\* after the last one Restore::run returns Ok(()) without a candidate
RsReplica ==
    /\ rs.pc = "decide"
    /\ LET k == rs.k
           ri == restore_info(remote[k])
           seen == [rs EXCEPT !.read = @ \cup {k}]
           next(latest, client) ==
               [seen EXCEPT !.k = k + 1, !.latest = latest, !.client = client,
                            !.pc = AfterDecide(k + 1, latest),
                            !.result = IF AfterDecide(k + 1, latest) = "done"
                                       THEN "Ok" ELSE ""]
       IN \/ \* the store cannot be listed or read
             /\ rs' = [seen EXCEPT !.pc = "done", !.result = "StorageError",
                                   !.failed = @ \cup {k}]
          \/ /\ ri.err # ""
             /\ rs' = [seen EXCEPT !.pc = "done", !.result = ri.err,
                                   !.failed = @ \cup {k}]
          \/ /\ ri.err = ""
             /\ rs' = IF ri.some /\ (~rs.latest.some
                                      \/ newer(ri.generation, rs.latest.generation))
                      THEN next(ri, k)
                      ELSE next(rs.latest, rs.client)
    /\ UNCHANGED <<call, envVars, metaVars, dbVars, repVars, sent, options, output, temp>>

AfterGroups(groups) == IF groups = <<>> THEN "rename" ELSE "apply"

\* (variant: the snapshot is written to the output path)
snapshot_path_output == "output"

\* the path restore_snapshot writes the decompressed snapshot to: the name
\* of the temp file
snapshot_path == "temp"

\* Restore::run: the temp file, then restore_snapshot
RsSnapshot ==
    /\ rs.pc = "snapshot"
    /\ LET data == remote[rs.client].snaps[<<rs.latest.generation, rs.latest.index>>]
       IN \/ \* the temp file, the download, the decompression or the write fails
             /\ RsEnd("Error")
             /\ output' = output
          \/ /\ rs' = [rs EXCEPT !.pc = AfterGroups(rs.latest.wal_segments),
                                 !.groups = rs.latest.wal_segments]
             /\ IF snapshot_path = "temp"
                THEN temp' = data /\ output' = output
                ELSE temp' = temp /\ output' = data
    /\ UNCHANGED <<call, envVars, metaVars, dbVars, repVars, sent, options>>

\* the offsets of a plan's group as a set
Range(offs) == {offs[j] : j \in 1 .. Len(offs)}

\* apply_wal_frames: one round of its loop: the segments of one index are
\* read and written to the -wal file, and wal_checkpoint(TRUNCATE) writes
\* the frames SQLite recovers from it into the database
RsApply ==
    /\ rs.pc = "apply"
    /\ LET g == rs.latest.generation
           index == Head(rs.groups)[1]
           offsets == Head(rs.groups)[2]
           store == remote[rs.client]
           hdr == store.segs[<<db_name, g, index, offsets[1]>>].hdr
           frames == SegConcat(store, g, index, Range(offsets))
       IN \/ \* a download, the decompression, the write or the checkpoint fails
             RsEnd("Error")
          \/ /\ temp' = Recover(temp, hdr, frames)
             /\ rs' = [rs EXCEPT !.groups = Tail(@), !.pc = AfterGroups(Tail(rs.groups))]
    /\ UNCHANGED <<call, envVars, metaVars, dbVars, repVars, sent, options, output>>

\* Restore::run: the temp file is renamed to the output path
RsRename ==
    /\ rs.pc = "rename"
    /\ \/ \* rename fails (the temp directory is on another filesystem)
          /\ RsEnd("Error")
          /\ output' = output
       \/ /\ output' = temp
          /\ RsEnd("Ok")
    /\ UNCHANGED <<call, envVars, metaVars, dbVars, repVars, sent, options>>

\* the objects replication leaves of one WAL cycle of two shadow indexes:
\* index 0 uploaded in three segments, index 1 in one
Frame2 == MakeFrame(2, 1, <<1, 0>>, 1, InitFrame.ck)
Frame3 == MakeFrame(2, 1, <<0, 1>>, 1, Frame2.ck)
SegmentAt(index, offset) ==
    IF index = 0 /\ offset = 0 THEN [hdr |-> MakeHeader(1), frames |-> <<InitFrame>>]
    ELSE IF index = 0 /\ offset = calc_wal_size(1) THEN [hdr |-> NoHdr, frames |-> <<Frame2>>]
    ELSE IF index = 0 THEN [hdr |-> NoHdr, frames |-> <<Frame3>>]
    ELSE [hdr |-> MakeHeader(2), frames |-> <<RotFrame>>]

AllSegments == {<<0, 0>>, <<0, calc_wal_size(1)>>, <<0, calc_wal_size(2)>>, <<1, 0>>}

\* what a store holds of one generation: nothing; everything; everything but
\* a middle segment of index 0; everything but the first segment of index 0;
\* no snapshot; a second snapshot at index 1 and no first segment of index 0;
\* a generation that has rotated up to index 10
Holdings == {"absent", "full", "gap", "nohead", "nosnap", "snap1", "index10"}

SnapshotsHeld(h) ==
    IF h \in {"absent", "nosnap"} THEN {}
    ELSE IF h = "snap1" THEN {0, 1}
    ELSE IF h = "index10" THEN {10}
    ELSE {0}

SegmentsHeld(h) ==
    IF h = "absent" THEN {}
    ELSE IF h = "gap" THEN AllSegments \ {<<0, calc_wal_size(1)>>}
    ELSE IF h \in {"nohead", "snap1"} THEN AllSegments \ {<<0, 0>>}
    ELSE IF h = "index10" THEN {<<10, 0>>}
    ELSE AllSegments

\* the store that holds of generation g what held[g] says
StoreOf(held) ==
    [snaps |-> [k \in {<<g, i>> : g \in DOMAIN held, i \in 0 .. 10} \cap
                      UNION {{<<g, i>> : i \in SnapshotsHeld(held[g])} : g \in DOMAIN held}
                  |-> NoData],
     segs |-> [k \in UNION {{<<db_name, g, sg[1], sg[2]>> : sg \in SegmentsHeld(held[g])} :
                               g \in DOMAIN held}
                  |-> SegmentAt(k[3], k[4])]]

RestoreStores == {StoreOf(held) : held \in [1 .. MaxGen -> Holdings]}

\* a file that exists at the output path before the restore
OldFile == [p \in Pages |-> <<1, 1>>]

\* the restore command with one or two replicas, whose database is given by
\* a bare file name
InitRestore ==
    /\ wal = Fresh.wal
    /\ salt = Fresh.salt
    /\ seq = Fresh.seq
    /\ dbfile = Fresh.dbfile
    /\ hist = Fresh.hist
    /\ genfile = Fresh.genfile
    /\ gendirs = Fresh.gendirs
    /\ shadow = Fresh.shadow
    /\ nextGen = Fresh.nextGen
    /\ mx = 1
    /\ wtx = 0
    /\ wlock = "none"
    /\ ckptDone = FALSE
    /\ wleft = 0
    /\ genStart = 0
    /\ config \in {c \in Configs : ~c.db_has_dir}
    /\ pc = "down"
    /\ info = Info0
    /\ tleft = 0
    /\ cleft = 0
    /\ dbInbox = <<>>
    /\ rpos = [r \in Replicas |-> EmptyPos]
    /\ rstate = [r \in Replicas |-> "WaitDbChanged"]
    /\ rpc = [r \in Replicas |-> "idle"]
    /\ rInbox = [r \in Replicas |-> <<>>]
    /\ remote \in [Replicas -> RestoreStores]
    /\ sent = [changed |-> FALSE, to |-> {}]
    /\ options \in [generation : 0 .. MaxGen, overwrite : BOOLEAN]
    /\ output \in {NoFile, OldFile}
    /\ temp = NoFile
    /\ rs = [RsOff EXCEPT !.pc = "exists", !.before = output]
    /\ call = NoCall

NextRestore ==
    \/ RsExists
    \/ RsReplica
    \/ RsSnapshot
    \/ RsApply
    \/ RsRename

SpecRestore == InitRestore /\ [][NextRestore]_vars

\* ------------------------------------------------------------------------
\* Properties of the restore command
\* ------------------------------------------------------------------------
SnapIndexes(store, g) == {k[2] : k \in {k \in DOMAIN store.snaps : k[1] = g}}

\* every name listed of generation g parses
WellNamed(store, g) ==
    /\ snapshots(store, g) # {-1}
    /\ wal_segments(store, g) # {<<-1, -1>>}

\* generation g of a store yields a plan: it has a snapshot, and every index
\* at or above the highest snapshot that has a segment has the one of offset 0
Restorable(store, g) ==
    /\ SnapIndexes(store, g) # {}
    /\ WellNamed(store, g)
    /\ \A k \in DOMAIN store.segs :
          (k[1] = db_name /\ k[2] = g /\ k[3] >= Max(SnapIndexes(store, g)))
              => <<db_name, g, k[3], 0>> \in DOMAIN store.segs

\* the newest generation of a store that yields a plan (0: none does)
Candidate(store) ==
    Max({g \in remote_generations(store) : Restorable(store, g)} \cup {0})

\* the segments of an index at or above `from` do not form a chain
Gapped(store, g, from) ==
    \E k \in DOMAIN store.segs :
        /\ k[1] = db_name /\ k[2] = g /\ k[3] >= from
        /\ ~Chain(store, SegsOf(store, db_name, g, k[3]))

\* decide_restore_info has returned Ok
Decided ==
    \/ rs.pc \in {"snapshot", "apply", "rename"}
    \/ rs.pc = "done" /\ rs.k > config.nrep

\* C11: a generation of a replica whose segments of some index have a gap
\* (a segment does not start where the decompressed bytes of the one before
\* end) is never the restore source: the plan decide_restore_info settles
\* on is gap-free, so with the gap in one of two replicas the other is used
\* and with the gap in every replica nothing is restored.
C11_GapNeverChosen ==
    (Decided /\ rs.latest.some)
        => ~Gapped(remote[rs.client], rs.latest.generation, rs.latest.index)

\* C12: when no configured replica yields a restore plan, the restore
\* command fails: run() returns an error, the exit code is not 0 and no
\* output file is created.
C12_NoPlanFails ==
    (rs.pc = "done" /\ \A r \in Replicas : Candidate(remote[r]) = 0)
        => /\ rs.result # "Ok"
           /\ ExitCode(rs.result) # 0
           /\ output = rs.before

\* C13: a replica whose planning fails (its store cannot be listed or read,
\* its snapshot listing is malformed) does not keep the planner from the
\* next replica: when a replica whose planning has not failed yields a
\* plan, the planner ends with a candidate.
C13_FailingReplicaSkipped ==
    (rs.pc \notin {"exists", "decide"} /\ rs.before = NoFile
        /\ \E r \in Replicas \ rs.failed : Candidate(remote[r]) # 0)
        => rs.latest.some

\* C14: with an output path that exists and overwrite not set, run() fails
\* with OverwriteDbError before any replica is read and the file stays as it
\* is; with overwrite set, an existing output file does not make run() fail.
C14_OverwriteGuard ==
    rs.pc = "done" =>
        /\ (rs.before # NoFile /\ ~options.overwrite)
              => (rs.result = "OverwriteDbError" /\ rs.read = {} /\ output = rs.before)
        /\ options.overwrite => rs.result # "OverwriteDbError"

\* C15: when the options name a generation (one that yields a plan on some
\* replica), the plan is the one of that generation; when none is named,
\* it is the one of the newest generation.
C15_NamedGeneration ==
    (Decided /\ rs.latest.some) =>
        IF options.generation # 0
        THEN (\E r \in Replicas : Restorable(remote[r], options.generation))
                => rs.latest.generation = options.generation
        ELSE \A r \in Replicas : rs.latest.generation >= Candidate(remote[r])

Min(S) == CHOOSE x \in S : \A y \in S : x <= y

\* C16: when decide_restore_info returns Ok, it returns the candidate of the
\* largest generation among the candidates of the replicas, the earliest
\* configured replica winning among equals, and its snapshot is the
\* highest-index snapshot of that generation.
C16_LargestGeneration ==
    Decided =>
        \A cand \in {[r \in Replicas |-> Candidate(remote[r])]} :
        \A C \in {{r \in Replicas : cand[r] # 0}} :
            IF C = {} THEN ~rs.latest.some
            ELSE /\ rs.latest.some
                 /\ rs.latest.generation = Max({cand[r] : r \in C})
                 /\ rs.client = Min({r \in C : cand[r] = rs.latest.generation})
                 /\ rs.latest.index = Max(SnapIndexes(remote[rs.client], rs.latest.generation))

\* two replicas hold the same newest generation and the first one is chosen
C16_Witness ==
    /\ Decided
    /\ config.nrep = 2
    /\ rs.client = 1
    /\ Candidate(remote[1]) # 0
    /\ Candidate(remote[1]) = Candidate(remote[2])

StrictlyIncreasing(offs) == \A j \in 1 .. Len(offs) - 1 : offs[j] < offs[j + 1]

\* C17: restore_wal_segments_of yields a plan exactly when every index group
\* at or above the snapshot index starts at offset 0 (the offsets of a group
\* are then strictly increasing); the plan's groups are those indexes in
\* increasing order; otherwise the generation is rejected with
\* InvalidWalSegmentError naming the generation, the index and the offset of
\* the offending segment.  (Stated of the store decide_restore_info is
\* about to plan from, for every generation and snapshot index.)
C17_PlanValidated ==
    rs.pc = "decide" =>
        \A g \in 1 .. MaxGen : \A si \in {0, 1} :
            \A p \in {restore_wal_segments_of(remote[rs.k], g, si)} :
            \A listed \in {{sg \in wal_segments(remote[rs.k], g) : sg[1] >= si}} :
                wal_segments(remote[rs.k], g) # {<<-1, -1>>} =>
                    /\ p.err = "" <=> \A sg \in listed : <<sg[1], 0>> \in listed
                    /\ p.err = "" =>
                          /\ {p.plan[j][1] : j \in 1 .. Len(p.plan)} = {sg[1] : sg \in listed}
                          /\ \A j \in 1 .. Len(p.plan) - 1 : p.plan[j][1] < p.plan[j + 1][1]
                          /\ \A j \in 1 .. Len(p.plan) :
                                /\ p.plan[j][1] >= si
                                /\ p.plan[j][2][1] = 0
                                /\ StrictlyIncreasing(p.plan[j][2])
                                /\ Range(p.plan[j][2])
                                      = {sg[2] : sg \in {x \in listed : x[1] = p.plan[j][1]}}
                    /\ p.err # "" =>
                          /\ p.err = "InvalidWalSegmentError"
                          /\ p.at[1] = g
                          /\ <<p.at[2], p.at[3]>> \in listed
                          /\ p.at[3] # 0
                          /\ <<p.at[2], 0>> \notin listed

\* the plan of two index groups of a generation is settled on after a newer
\* generation of the same store has been rejected
C17_Witness ==
    /\ rs.pc = "snapshot"
    /\ Len(rs.latest.wal_segments) = 2
    /\ \E g \in remote_generations(remote[rs.client]) :
          /\ g > rs.latest.generation
          /\ SnapIndexes(remote[rs.client], g) # {}
          /\ restore_wal_segments_of(remote[rs.client], g,
                 Max(SnapIndexes(remote[rs.client], g))).err = "InvalidWalSegmentError"

\* the database the plan of the chosen generation yields
Planned ==
    ApplyIndexes(remote[rs.client], rs.latest.generation,
                 {rs.latest.wal_segments[j][1] : j \in 1 .. Len(rs.latest.wal_segments)},
                 remote[rs.client].snaps[<<rs.latest.generation, rs.latest.index>>])

\* C18: the output path comes into existence through the final rename only,
\* after the snapshot is written and every index group is applied and
\* checkpointed; a run in which a step fails leaves no file at the output
\* path.
C18_AtomicOutput ==
    [][/\ output' # output
            => /\ rs.pc = "rename"
               /\ rs.groups = <<>>
               /\ rs'.result = "Ok"
               /\ output' = temp
               /\ temp = Planned
       /\ (rs'.pc = "done" /\ rs'.result # "Ok" /\ rs.before = NoFile)
            => output' = NoFile]_vars

\* a restore of a plan of two index groups has ended with the output file
C18_Witness ==
    /\ rs.pc = "done"
    /\ rs.result = "Ok"
    /\ output # NoFile
    /\ Len(rs.latest.wal_segments) = 2

\* ------------------------------------------------------------------------
\* Properties of the shadow WAL: retention, verifier, file names, checksums
\* ------------------------------------------------------------------------
\* the index a replica counts with in clean_wal for generation g
CursorIndex(r, g) ==
    IF rpos[r] = EmptyPos \/ rpos[r].generation # g THEN 0 ELSE rpos[r].index

\* m: the minimum cursor index over all replicas
MinCursorIndex(g) ==
    CHOOSE x \in {CursorIndex(r, g) : r \in Replicas} :
        \A r \in Replicas : x <= CursorIndex(r, g)

\* the shadow files of the current generation a replica still needs: the one
\* at its cursor index, the one just before it and every later one
Retained(r) ==
    LET g == genfile
        i == rpos[r].index
    IN /\ <<g, i>> \in DOMAIN shadow
       /\ i > 0 => <<g, i - 1>> \in DOMAIN shadow
       /\ \A j \in i .. TopIndex(g) : <<g, j>> \in DOMAIN shadow

C21_Witness ==
    \E r \in Replicas :
        /\ genfile # 0
        /\ rpos[r].generation = genfile
        /\ rpos[r].index >= 2
        /\ <<genfile, rpos[r].index - 2>> \notin DOMAIN shadow
        /\ <<genfile, rpos[r].index - 1>> \in DOMAIN shadow

\* the run so far: no other writer has touched the database or its WAL, the
\* process has not died, and the first sync cycle has completed (its
\* DbChanged waits in the replica's channel)
FirstCycleDone ==
    /\ wleft = MaxWrites
    /\ wlock = "none"
    /\ wal.partial = 0
    /\ cleft = MaxCrashes
    /\ Len(rInbox[1]) = 1

\* C22: sync is idempotent: when a sync cycle has completed and no write
\* reaches the database or its WAL, the steps of the next sync cycle append
\* no bytes to any shadow file, create no shadow file and no generation, and
\* send no DbChanged (so that no replica uploads anything).
C22_IdempotentSync ==
    [][(/\ FirstCycleDone
        /\ tleft = MaxTicks - 2
        /\ pc \notin {"idle", "down"}
        /\ wleft' = wleft /\ wlock' = wlock /\ cleft' = cleft
        /\ wal'.partial = wal.partial)
            => /\ shadow' = shadow
               /\ gendirs' = gendirs
               /\ nextGen' = nextGen
               /\ rInbox' = rInbox]_vars

\* the current shadow file of the current generation
CurrentShadow == shadow[<<genfile, current_shadow_index(genfile)>>]

\* verify gets as far as comparing the live WAL with a current shadow file
\* that holds at least a header
Comparable ==
    /\ genfile # 0
    /\ <<genfile, current_shadow_index(genfile)>> \in DOMAIN shadow
    /\ align_frame(FileSize(CurrentShadow)) >= WAL_HEADER_SIZE

\* the reason the cases of C24 give, in their order ("-": none of the cases)
ReasonOfCase ==
    LET W == align_frame(FileSize(wal))
        S == align_frame(FileSize(CurrentShadow))
        n == Len(CurrentShadow.frames)
    IN IF W < S THEN "wal truncated by another process"
       ELSE IF S = WAL_HEADER_SIZE /\ wal.hdr # CurrentShadow.hdr
       THEN "wal header only, mismatched"
       ELSE IF S > WAL_HEADER_SIZE /\ CurrentShadow.frames[n] # wal.frames[n]
       THEN "wal overwritten by another process"
       ELSE IF wal.hdr = CurrentShadow.hdr THEN ""
       ELSE "-"

\* C24: verify classifies the live WAL against the current shadow: WAL
\* shorter than the shadow: `wal truncated by another process`; shadow of a
\* header only and the live header differs: `wal header only, mismatched`;
\* last shadow frame not equal to the live frame at its offset: `wal
\* overwritten by another process`; header and last frame equal and the WAL
\* not shorter: no reason, no restart.  A reason makes the same sync cycle
\* create a new generation: it goes through create_generation up to the
\* rename of the pointer file (unless the process dies).
C24_VerifyClassifies ==
    [][/\ (pc = "verify" /\ pc' \notin {"verify", "down"} /\ Comparable
            /\ ReasonOfCase # "-")
            => /\ info'.reason = ReasonOfCase
               /\ ReasonOfCase = "" => (~info'.restart /\ pc' = "sync_wal")
               /\ ReasonOfCase # "" => pc' = "cg_mkdir"
       /\ (pc \in {"cg_mkdir", "cg_create", "cg_write"}) => pc' # "idle"
       /\ (pc = "cg_rename" /\ pc' \notin {"cg_rename", "down"})
            => (genfile' = info.newgen /\ genfile' # genfile)]_vars

\* the cycle has started a new generation after verify found a shadow of a
\* header only under a live WAL of another header
C24_Witness ==
    /\ pc = "cg_clean"
    /\ info.reason = "wal header only, mismatched"
    /\ genfile = info.newgen

\* ------------------------------------------------------------------------
\* Functions applied on their own: file names (base/file.rs), the index
\* rule of verify and decide_checkpoint_mode (database/database.rs)
\* ------------------------------------------------------------------------
\* pages a WAL size is drawn from, and the page thresholds of a configuration
MaxPages == 3

\* shadow indexes and segment offsets the functions are applied to
IndexInputs ==
    {0, 1, 9, 10, 19, 25, 255, 4096, MAX_WAL_INDEX - 1, MAX_WAL_INDEX}
OffsetInputs == {0, WAL_HEADER_SIZE} \cup {calc_wal_size(n) : n \in 1 .. MaxPages}

\* a file name of seven digits (one too few), as written in lower case
short_name(index) == [digits |-> HexDigits(index, 7), upper |-> FALSE]

\* the names of index and offset are formatted and parsed back
FormatParse ==
    /\ call.fn = "names"
    /\ call.out = NoResult
    /\ LET i == call.in.index
           o == call.in.offset
       IN call' = [call EXCEPT !.out =
                      [wal |-> parse_wal_path(format_wal_path(i)),
                       snapshot |-> parse_snapshot_path(format_snapshot_path(i)),
                       segment |-> parse_wal_segment_path(format_walsegment_path(i, o)),
                       short |-> parse_wal_path(short_name(i))]]
    /\ UNCHANGED <<envVars, metaVars, dbVars, repVars, sent, restoreVars>>

\* verify, once current_shadow_index has returned call.in.index
VerifyIndex ==
    /\ call.fn = "verify"
    /\ call.out = NoResult
    /\ call' = [call EXCEPT !.out = verify_index(current_generation, call.in.index)]
    /\ UNCHANGED <<envVars, metaVars, dbVars, repVars, sent, restoreVars>>

\* the configurations of the page thresholds (0: the rule is switched off)
ThresholdConfigs ==
    {[nrep |-> 1, db_has_dir |-> FALSE, min_checkpoint_page_number |-> a,
      max_checkpoint_page_number |-> b, truncate_page_number |-> c,
      checkpoint_interval_secs |-> d] :
        a \in 0 .. MaxPages, b \in 0 .. MaxPages, c \in 0 .. MaxPages, d \in {0, 60}}

\* the sizes sync_wal returns: whole frames after the header
WalSizes == {calc_wal_size(n) : n \in 0 .. MaxPages}

\* the disk of generation 1 whose current shadow file has index i and holds
\* what the live WAL holds
DiskAt(i) == (<<1, i>> :> Rotated.wal)

\* a frame committed after RotFrame in the same WAL
NextFrame == MakeFrame(2, 1, <<1, 0>>, 2, RotFrame.ck)

\* the current shadow file verify may find beside the live WAL of Rotated:
\* equal to it; behind it by a frame; ahead of it by a frame (the WAL was
\* truncated and written again); of the WAL before the restart, with and
\* without frames
ShadowInputs ==
    {Rotated.wal,
     [hdr |-> MakeHeader(2), frames |-> <<>>, partial |-> 0],
     [hdr |-> MakeHeader(2), frames |-> <<RotFrame, NextFrame>>, partial |-> 0],
     [hdr |-> MakeHeader(1), frames |-> <<>>, partial |-> 0],
     [hdr |-> MakeHeader(1), frames |-> <<InitFrame>>, partial |-> 0]}

\* the shadow file of index 0 a replica reads in generation 1: the live WAL
\* of Rotated and one more committed frame
TwoFrames == [hdr |-> MakeHeader(2), frames |-> <<RotFrame, NextFrame>>, partial |-> 0]

\* the remote stores a replica may find for generation 1: nothing; the
\* snapshot; the snapshot and the segment from offset 0; these and the
\* segment that follows it
Store1 == write_snapshot(EmptyStore, [generation |-> 1, index |-> 0, offset |-> 1080], NoData)
Store2 ==
    [Store1 EXCEPT !.segs = Put(@, <<db_name, 1, 0, 0>>,
                                [hdr |-> TwoFrames.hdr, frames |-> <<RotFrame>>])]
Store3 ==
    [Store2 EXCEPT !.segs = Put(@, <<db_name, 1, 0, 1080>>,
                                [hdr |-> NoHdr, frames |-> <<NextFrame>>])]
StoreInputs == {EmptyStore, Store1, Store2, Store3}

\* the cursors a replica may hold when a command arrives
CursorInputs ==
    {EmptyPos} \cup {[generation |-> 1, index |-> 0, offset |-> o] : o \in {0, 1080, 2128}}

\* Replicate::command(DbChanged(pos)) on the command drawn
DbChangedCommand ==
    /\ call.fn = "command"
    /\ \E r \in Replicas : RecvDbChanged(r)

\* acquire_read_lock on tx_connection (TRUE: Some); ok: Connection::open and
\* the BEGIN;SELECT batch succeed.  Result: tx_connection afterwards, Ok
acquire_read_lock(tx, ok) ==
    IF tx THEN [tx |-> TRUE, ok |-> TRUE]
    ELSE IF ok THEN [tx |-> TRUE, ok |-> TRUE]
    ELSE [tx |-> FALSE, ok |-> FALSE]

\* release_read_lock on tx_connection; ok: the ROLLBACK succeeds
release_read_lock(tx, ok) ==
    IF ~tx THEN [tx |-> FALSE, ok |-> TRUE]
    ELSE IF ok THEN [tx |-> FALSE, ok |-> TRUE]
    ELSE [tx |-> TRUE, ok |-> FALSE]

\* exec_checkpoint on tx_connection: release_read_lock()?, the PRAGMA,
\* acquire_read_lock()?, ret?.  Result: tx_connection afterwards, Ok,
\* whether the PRAGMA was issued, and the call the error returned is of
exec_checkpoint(tx, rollback_ok, pragma_ok, open_ok) ==
    LET rel == release_read_lock(tx, rollback_ok)
        acq == acquire_read_lock(rel.tx, open_ok)
    IN IF ~rel.ok THEN [tx |-> rel.tx, ok |-> FALSE, pragma |-> FALSE, err |-> "release"]
       ELSE IF ~acq.ok THEN [tx |-> acq.tx, ok |-> FALSE, pragma |-> TRUE, err |-> "acquire"]
       ELSE IF ~pragma_ok THEN [tx |-> acq.tx, ok |-> FALSE, pragma |-> TRUE, err |-> "pragma"]
       ELSE [tx |-> acq.tx, ok |-> TRUE, pragma |-> TRUE, err |-> ""]

\* exec_checkpoint is applied
ExecCheckpoint ==
    /\ call.fn = "exec_checkpoint"
    /\ call.out = NoResult
    /\ call' = [call EXCEPT !.out = exec_checkpoint(call.in.tx_connection,
                     call.in.rollback_ok, call.in.pragma_ok, call.in.open_ok)]
    /\ UNCHANGED <<restoreVars, envVars, metaVars, dbVars, repVars, sent>>

\* decide_checkpoint_mode on the sizes of info, for the age of the database
\* file call.in.elapsed says
DecideMode ==
    /\ call.fn = "decide_checkpoint_mode"
    /\ call.out = NoResult
    /\ call' = [call EXCEPT !.out =
                  [mode |-> decide_checkpoint_mode(info.orig, info.new, info.has_mtime,
                                                   call.in.elapsed)]]
    /\ UNCHANGED <<restoreVars, envVars, metaVars, dbVars, repVars, sent>>

\* the shadow directory a reader may find: generation 1 cleaned away after a
\* new generation was created; the file of index 0 alone; beside it the file
\* of index 1 as init_shadow_wal_file has just created it (empty), with its
\* header written, and with a frame copied
AfterHeader == [hdr |-> MakeHeader(3), frames |-> <<>>, partial |-> 0]
AfterFrame ==
    [hdr |-> MakeHeader(3),
     frames |-> <<MakeFrame(1, 1, <<1, 1>>, 3, MakeHeader(3).ck)>>, partial |-> 0]
ReaderDisks ==
    {(<<2, 0>> :> AfterHeader),
     (<<1, 0>> :> TwoFrames),
     (<<1, 0>> :> TwoFrames) @@ (<<1, 1>> :> EmptyFile),
     (<<1, 0>> :> TwoFrames) @@ (<<1, 1>> :> AfterHeader),
     (<<1, 0>> :> TwoFrames) @@ (<<1, 1>> :> AfterFrame)}

\* ShadowWalReader::read(buf) with buf.len() = n: the reader afterwards
read(rd, n) ==
    IF rd.left = 0 THEN rd
    ELSE IF rd.left < n THEN rd
    ELSE [rd EXCEPT !.left = @ - n, !.pos.offset = @ + n]

\* ShadowWalReader::try_create(call.in.position) on the shadow directory
TryCreate ==
    /\ call.fn = "try_create"
    /\ call.out = NoResult
    /\ call' = [call EXCEPT !.out = ShadowWalReader(call.in.position)]
    /\ UNCHANGED <<restoreVars, envVars, metaVars, dbVars, repVars, sent>>

\* a read of the WAL header or of a frame through the reader created
ReaderRead ==
    /\ call.fn = "try_create"
    /\ call.out # NoResult
    /\ call.out.err = ""
    /\ \E n \in {WAL_HEADER_SIZE, FrameSize} :
          call' = [call EXCEPT !.out = read(@, n)]
    /\ UNCHANGED <<restoreVars, envVars, metaVars, dbVars, repVars, sent>>

\* the replica of InitCalls: at rest, or as the command drawn finds it
InitReplica ==
    IF call.fn = "command"
    THEN /\ rpos = [r \in {1} |-> call.in.position]
         /\ rstate = [r \in {1} |-> call.in.state]
         /\ rInbox = [r \in {1} |-> <<call.in.cmd>>]
         /\ remote = [r \in {1} |-> call.in.store]
    ELSE /\ rpos = [r \in {1} |-> EmptyPos]
         /\ rstate = [r \in {1} |-> "WaitDbChanged"]
         /\ rInbox = [r \in {1} |-> <<>>]
         /\ remote = [r \in {1} |-> EmptyStore]

InitCalls ==
    /\ wal = Rotated.wal
    /\ salt = Rotated.salt
    /\ seq = Rotated.seq
    /\ dbfile = Rotated.dbfile
    /\ hist = Rotated.hist
    /\ nextGen = 2
    /\ mx = 1
    /\ wtx = 0
    /\ wlock = "none"
    /\ ckptDone = FALSE
    /\ wleft = 0
    /\ genStart = 0
    /\ tleft = 0
    /\ cleft = 0
    /\ dbInbox = <<>>
    /\ rpc = [r \in {1} |-> "idle"]
    /\ sent = [changed |-> FALSE, to |-> {}]
    /\ options = NoOptions
    /\ output = NoFile
    /\ temp = NoFile
    /\ rs = RsOff
    /\ genfile = 1
    /\ gendirs = {1}
    /\ \/ \* parse_*_path of format_*_path
          /\ \E i \in IndexInputs, o \in OffsetInputs :
                call = [fn |-> "names", in |-> [index |-> i, offset |-> o], out |-> NoResult]
          /\ shadow = DiskAt(0)
          /\ config \in {c \in Configs : c.nrep = 1 /\ ~c.db_has_dir}
          /\ pc = "idle"
          /\ info = Info0
       \/ \* verify on the shadow file of index i
          /\ \E i \in IndexInputs :
                /\ call = [fn |-> "verify", in |-> [index |-> i], out |-> NoResult]
                /\ shadow = DiskAt(i)
          /\ config \in {c \in Configs : c.nrep = 1 /\ ~c.db_has_dir}
          /\ pc = "idle"
          /\ info = Info0
       \/ \* sync from verify on, beside the current shadow file sf
          /\ call = [fn |-> "sync", in |-> <<>>, out |-> NoResult]
          /\ \E sf \in ShadowInputs : shadow = (<<1, 0>> :> sf)
          /\ config \in {c \in Configs : c.nrep = 1 /\ ~c.db_has_dir}
          /\ pc = "verify"
          /\ info = Info0
       \/ \* exec_checkpoint with the read lock held (as try_create leaves it)
          \* or lost, for each outcome of the ROLLBACK, of the PRAGMA and of
          \* the Connection::open and BEGIN;SELECT of the re-acquire
          /\ \E t \in BOOLEAN, r \in BOOLEAN, g \in BOOLEAN, o \in BOOLEAN :
                call = [fn |-> "exec_checkpoint",
                        in |-> [tx_connection |-> t, rollback_ok |-> r, pragma_ok |-> g,
                                open_ok |-> o],
                        out |-> NoResult]
          /\ shadow = DiskAt(0)
          /\ config \in {c \in Configs : c.nrep = 1 /\ ~c.db_has_dir}
          /\ pc = "idle"
          /\ info = Info0
       \/ \* a DbChanged command reaches a replica in either state, with any
          \* cursor, beside each remote store
          /\ \E o \in {0, 2128}, st \in {"WaitDbChanged", "WaitSnapshot"},
                cur \in CursorInputs, store \in StoreInputs :
                /\ call = [fn |-> "command",
                           in |-> [cmd |-> DbChanged([generation |-> 1, index |-> 0,
                                                      offset |-> o]),
                                   state |-> st, position |-> cur, store |-> store],
                           out |-> NoResult]
          /\ shadow = (<<1, 0>> :> TwoFrames)
          /\ config \in {c \in Configs : c.nrep = 1 /\ ~c.db_has_dir}
          /\ pc = "idle"
          /\ info = Info0
       \/ \* a reader is created at a cursor of generation 1, index 0
          /\ \E o \in {0, 1080, 2128} :
                call = [fn |-> "try_create",
                        in |-> [position |-> [generation |-> 1, index |-> 0, offset |-> o]],
                        out |-> NoResult]
          /\ shadow \in ReaderDisks
          /\ config \in {c \in Configs : c.nrep = 1 /\ ~c.db_has_dir}
          /\ pc = "idle"
          /\ info = Info0
       \/ \* decide_checkpoint_mode on the sizes sync_wal has returned
          /\ \E e \in BOOLEAN :
                call = [fn |-> "decide_checkpoint_mode", in |-> [elapsed |-> e],
                        out |-> NoResult]
          /\ shadow = DiskAt(0)
          /\ config \in ThresholdConfigs
          /\ pc = "decide"
          /\ \E orig \in WalSizes, new \in WalSizes, m \in BOOLEAN :
                info = [Info0 EXCEPT !.generation = 1, !.orig = orig, !.new = new,
                                     !.has_mtime = m]
    /\ InitReplica

NextCalls ==
    \/ FormatParse
    \/ VerifyIndex
    \/ DecideMode
    \/ ExecCheckpoint
    \/ DbChangedCommand
    \/ TryCreate
    \/ ReaderRead
    \/ Decide
    \/ Verify
    \/ CgMkdir
    \/ CgCreate
    \/ CgWrite
    \/ CgRename
    \/ CgClean

SpecCalls == InitCalls /\ [][NextCalls]_vars

\* C23: when the current shadow index has reached 0x7FFFFFFF, verify returns
\* the reason `max index exceeded` (and the cycle starts a new generation
\* instead of a shadow file of a higher index).
C23_MaxIndexExceeded ==
    (call.fn = "verify" /\ call.out # NoResult /\ call.in.index >= MAX_WAL_INDEX)
        => call.out.reason = "max index exceeded"

\* C25: file names round-trip through format and parse: for every index i
\* in 0 .. 0x7FFFFFFF and every offset o below 2^32 the WAL name of i parses
\* to i, the snapshot name of i to i and the segment name of (i, o) to
\* (i, o); a name of fewer than 8 hex digits is rejected.
C25_NamesRoundTrip ==
    (call.fn = "names" /\ call.out # NoResult) =>
        /\ call.out.wal = call.in.index
        /\ call.out.snapshot = call.in.index
        /\ call.out.segment = <<call.in.index, call.in.offset>>
        /\ call.out.short = -1

\* an offset at a frame boundary: 0, or 32 + k * (24 + page_size)
FrameAligned(offset) ==
    \/ offset = 0
    \/ /\ offset >= WAL_HEADER_SIZE
       /\ (offset - WAL_HEADER_SIZE) % FrameSize = 0

PendingFrames(sf) ==
    ValidPrefix(SubSeq(wal.frames, Len(sf.frames) + 1, Len(wal.frames)),
                sf.hdr.salt, read_last_checksum(sf))

\* C27: one call of copy_to_shadow_wal copies all pending frames: when the
\* live WAL holds n >= 1 chained frames after the shadow's end, the n-th a
\* commit frame and the chain ending there, the shadow afterwards ends just
\* past the n-th frame and the new size returned is that offset.
C27_CopiesAllPending ==
    [][(/\ pc = "sync_wal"
        /\ pc' \in {"sw_init", "decide"}
        /\ <<info.generation, info.index>> \in DOMAIN shadow)
          => LET key == <<info.generation, info.index>>
                 sf == shadow[key]
                 n == Len(PendingFrames(sf))
             IN (n >= 1 /\ PendingFrames(sf)[n].dbsize # 0)
                  => /\ shadow'[key].frames = sf.frames \o PendingFrames(sf)
                     /\ info'.new = WAL_HEADER_SIZE + (Len(sf.frames) + n) * FrameSize]_vars

\* C28: for every shadow file that holds at least one frame, the rolling
\* checksum folded from the header's checksum words over the frames in order
\* reproduces the checksum words stored in every frame, the last one
\* included, and every frame carries the salts of the header.
C28_ChecksumChain ==
    \A k \in DOMAIN shadow :
        shadow[k].frames # <<>> =>
            ValidPrefix(shadow[k].frames, shadow[k].hdr.salt, shadow[k].hdr.ck)
                = shadow[k].frames

\* the live WAL carries another header than the current shadow file, which
\* holds frames, the last of them equal to the live WAL's frame at its offset
HeaderOnlyDiffers ==
    /\ Comparable
    /\ wal.hdr # CurrentShadow.hdr
    /\ Len(CurrentShadow.frames) >= 1
    /\ Len(CurrentShadow.frames) <= Len(wal.frames)
    /\ CurrentShadow.frames[Len(CurrentShadow.frames)]
          = wal.frames[Len(CurrentShadow.frames)]

\* C29: when only the header of the live WAL differs from the current
\* shadow's (the shadow holds frames and its last frame still equals the
\* live WAL at that offset), verify sets restart without a reason; the same
\* sync cycle first appends to the shadow file of the current index and only
\* then creates the file of index + 1 with the live header, in the same
\* generation; afterwards the generation is unchanged and the current shadow
\* index is the previous index plus 1.
C29_RestartNextIndex ==
    [][/\ (pc = "verify" /\ pc' \notin {"verify", "down"} /\ HeaderOnlyDiffers)
            => /\ info'.restart
               /\ info'.reason = ""
               /\ info'.generation = genfile
               /\ info'.index = current_shadow_index(genfile)
               /\ pc' = "sync_wal"
       /\ (pc = "sync_wal" /\ pc' \notin {"sync_wal", "down"} /\ info.restart)
            => /\ pc' = "sw_init"
               /\ DOMAIN shadow' = DOMAIN shadow
               /\ \A k \in DOMAIN shadow :
                     /\ k # <<info.generation, info.index>> => shadow'[k] = shadow[k]
                     /\ IsPrefix(shadow[k].frames, shadow'[k].frames)
       /\ (pc = "sw_init" /\ pc' \notin {"sw_init", "down"})
            => /\ pc' = "decide"
               /\ <<info.generation, info.index + 1>> \in DOMAIN shadow'
               /\ shadow'[<<info.generation, info.index + 1>>].hdr = wal.hdr
               /\ genfile' = genfile
               /\ genfile = info.generation
               /\ current_shadow_index(genfile)' = info.index + 1]_vars

\* the mode the size rules name, in their order ("-": none of the three);
\* off: the thresholds of value 0 that switch their rule off
SizeRule(off) ==
    IF config.truncate_page_number \notin off
       /\ info.orig >= calc_wal_size(config.truncate_page_number)
    THEN "TRUNCATE"
    ELSE IF config.max_checkpoint_page_number \notin off
            /\ info.new >= calc_wal_size(config.max_checkpoint_page_number)
    THEN "RESTART"
    ELSE IF info.new >= calc_wal_size(config.min_checkpoint_page_number)
    THEN "PASSIVE"
    ELSE "-"

\* C30 as stated: for every configuration of the three page thresholds,
\* decide_checkpoint_mode gives TRUNCATE when orig_wal_size >=
\* calc_wal_size(truncate_pages), otherwise RESTART when new_wal_size >=
\* calc_wal_size(max_checkpoint_pages), otherwise PASSIVE when new_wal_size
\* >= calc_wal_size(min_checkpoint_pages).
C30_SizeRulesEveryConfig ==
    [][(pc = "decide" /\ pc' \notin {"decide", "down"} /\ SizeRule({}) # "-")
          => (pc' = "ck_copy" /\ info'.mode = SizeRule({}))]_vars

\* C30 (amended): the three rules apply in that order, where a truncate or
\* max threshold of 0 switches its rule off (the min threshold has no such
\* exception).
C30_SizeRules ==
    [][(pc = "decide" /\ pc' \notin {"decide", "down"} /\ SizeRule({0}) # "-")
          => (pc' = "ck_copy" /\ info'.mode = SizeRule({0}))]_vars

\* decide_checkpoint_mode has chosen TRUNCATE for a WAL that has reached the
\* truncate threshold as well as the max threshold
C30_Witness ==
    /\ call.fn = "decide_checkpoint_mode"
    /\ pc = "ck_copy"
    /\ info.mode = "TRUNCATE"
    /\ config.truncate_page_number > 0
    /\ config.max_checkpoint_page_number > 0
    /\ info.new >= calc_wal_size(config.max_checkpoint_page_number)

\* ------------------------------------------------------------------------
\* Properties of the checkpoint rules, the read lock, the replica's commands,
\* the reader, and of startup
\* ------------------------------------------------------------------------
\* decide_checkpoint_mode has been applied where no size rule applies
TimeRuleCase ==
    /\ call.fn = "decide_checkpoint_mode"
    /\ call.out # NoResult
    /\ SizeRule({0}) = "-"

\* C31 as stated: when no size rule applies, PASSIVE is chosen exactly when
\* now - db_mtime > checkpoint_interval and the shadow holds at least one
\* frame (size >= 32 + 24 + page_size); otherwise no checkpoint is chosen.
C31_TimeRuleOneFrame ==
    TimeRuleCase =>
        call.out.mode = (IF info.has_mtime /\ call.in.elapsed
                            /\ info.new >= calc_wal_size(1)
                         THEN "PASSIVE" ELSE "")

\* C31 (amended): when no size rule applies, PASSIVE is chosen exactly when
\* checkpoint_interval is not 0, now - db_mtime > checkpoint_interval and
\* the shadow holds more than one frame (size > 32 + 24 + page_size).
C31_TimeRule ==
    TimeRuleCase =>
        call.out.mode = (IF config.checkpoint_interval_secs > 0
                            /\ info.has_mtime /\ call.in.elapsed
                            /\ info.new > calc_wal_size(1)
                         THEN "PASSIVE" ELSE "")

\* the time rule alone has chosen the checkpoint
C31_Witness ==
    /\ TimeRuleCase
    /\ call.out.mode = "PASSIVE"

\* C32: after exec_checkpoint returns, whether the PRAGMA succeeded or
\* failed, the read lock is held again (tx_connection is Some), so that the
\* orchestrator holds it between sync cycles; a failure of the PRAGMA is
\* reported, and only after the re-acquire.
C32_ReadLockHeldAgain ==
    (call.fn = "exec_checkpoint" /\ call.out # NoResult /\ call.out.pragma)
        => /\ call.out.tx
           /\ ~call.in.pragma_ok => call.out.err = "pragma"

\* replica r takes a DbChanged command off its channel in this step
TakesDbChanged(r) ==
    /\ rpc[r] = "idle"
    /\ rInbox[r] # <<>>
    /\ Head(rInbox[r]).type = "DbChanged"
    /\ rInbox' = [rInbox EXCEPT ![r] = Tail(@)]
    /\ pc' = pc

\* C33: a DbChanged(db_pos) with db_pos.offset = 0, or one received in
\* WaitSnapshot, is a no-op: the cursor, the state and the remote store of
\* the replica stay as they are and no command is sent to the database.
C33_DbChangedNoOp ==
    [][\A r \in Replicas :
          (TakesDbChanged(r)
             /\ (Head(rInbox[r]).pos.offset = 0 \/ rstate[r] = "WaitSnapshot"))
            => /\ rpos' = rpos
               /\ rstate' = rstate
               /\ rpc' = rpc
               /\ remote' = remote
               /\ dbInbox' = dbInbox]_vars

\* a DbChanged of offset 0 has been taken by a replica that waits for
\* DbChanged and whose cursor is in another generation or none
C33_Witness ==
    /\ call.fn = "command"
    /\ call.in.cmd.pos.offset = 0
    /\ call.in.state = "WaitDbChanged"
    /\ call.in.position = EmptyPos
    /\ rInbox[1] = <<>>
    /\ rpos[1] = EmptyPos
    /\ rstate[1] = "WaitDbChanged"

\* in a run of the replicator: the second sync cycle has notified replica 1
\* while it was waiting for the snapshot it asked for after the first; the
\* command is taken, nothing else has changed
C33_WaitingNotified ==
    /\ pc = "idle"
    /\ tleft = MaxTicks - 2
    /\ sent.changed /\ 1 \in sent.to
    /\ rInbox[1] = <<>>
    /\ rstate[1] = "WaitSnapshot"
    /\ rpos[1] = EmptyPos
    /\ dbInbox = <<1>>
    /\ remote[1] = EmptyStore

\* a round of the segment loop that changes something: it ends the loop, or
\* it uploads a segment and moves the cursor
RoundAdvances(r) ==
    LET rd == ShadowWalReader(rpos[r])
        sf == shadow[<<rd.pos.generation, rd.pos.index>>]
        whole == rd.pos.offset = 0
        frames == SubSeq(sf.frames, FramesBelow(rd.pos.offset) + 1,
                         FramesBelow(rd.pos.offset + rd.left))
    IN \/ rd.err = "eof"
       \/ /\ rd.err = ""
          /\ ~(whole /\ rd.left < WAL_HEADER_SIZE)
          /\ SaltsAgree(frames, IF whole THEN sf.hdr.salt ELSE 0)

\* C34: the handling of a DbChanged by a replica always terminates: the
\* segment loop ends on UnexpectedEof, and any other error ends the cycle
\* instead of repeating the step.  Hence in every state in which a replica
\* is in its segment loop, the next round of the loop changes something: it
\* uploads a segment and moves the cursor, or it leaves the loop.
C34_LoopMakesProgress ==
    \A r \in Replicas : rpc[r] = "loop" => RoundAdvances(r)

\* the remote segment (index, offset) of the highest index and, within that
\* index, of the highest offset
HighestSegment(S) ==
    CHOOSE sg \in S :
        \A o \in S : o[1] < sg[1] \/ (o[1] = sg[1] /\ o[2] <= sg[2])

\* the cursor a replica should compute from the remote store for generation g
CursorFromStore(store, g) ==
    LET segs == wal_segments(store, g)
    IN IF segs = {}
       THEN [generation |-> g, index |-> Max(snapshots(store, g)), offset |-> 0]
       ELSE LET sg == HighestSegment(segs)
            IN [generation |-> g, index |-> sg[1],
                offset |-> sg[2] + SegLen(store.segs[<<db_name, g, sg[1], sg[2]>>])]

\* C35: when a replica handles a DbChanged of another generation than its
\* cursor's and remote snapshots of that generation exist, the recomputed
\* cursor is (gen, max snapshot index, 0) without remote segments, and else
\* the end of the segment of the highest index and, within it, the highest
\* offset, whatever the order of the listing.
C35_CursorFromHighestSegment ==
    [][\A r \in Replicas :
          LET cmd == Head(rInbox[r])
              g == cmd.pos.generation
          IN (/\ TakesDbChanged(r)
              /\ ~returns_early(cmd.pos, rstate[r])
              /\ g # rpos[r].generation
              /\ snapshots(remote[r], g) \notin {{}, {-1}}
              /\ wal_segments(remote[r], g) # {<<-1, -1>>}
              /\ rpc'[r] = "loop")
               => rpos'[r] = CursorFromStore(remote[r], g)]_vars

\* the frame-aligned size of the shadow file at (g, i); 0 without a file
AlignedSize(g, i) ==
    IF <<g, i>> \in DOMAIN shadow THEN align_frame(FileSize(shadow[<<g, i>>])) ELSE 0

\* C36: ShadowWalReader::try_create(position): with bytes after
\* position.offset in the shadow file of position.index the reader starts
\* there; otherwise with data in the file of index + 1 it starts at
\* (index + 1, 0); with data in neither (the file of position.index being
\* there) the result is UnexpectedEof; and in every state of a reader
\* position.offset + left is the frame-aligned size of the file it reads.
C36_ReaderCases ==
    (call.fn = "try_create" /\ call.out # NoResult) =>
        LET pos == call.in.position
            rd == call.out
            exists == <<pos.generation, pos.index>> \in DOMAIN shadow
            here == AlignedSize(pos.generation, pos.index) > pos.offset
            there == AlignedSize(pos.generation, pos.index + 1) > 0
        IN /\ here => rd.err = "" /\ rd.pos.index = pos.index
           /\ (~here /\ there) => rd.err = "" /\ rd.pos.index = pos.index + 1
           /\ (exists /\ ~here /\ ~there) => rd.err = "eof"
           /\ rd.err = "" =>
                 rd.pos.offset + rd.left = AlignedSize(rd.pos.generation, rd.pos.index)

\* ------------------------------------------------------------------------
\* The replicator under fair scheduling
\* ------------------------------------------------------------------------
\* the task of run_database: the sync cycle on every timer tick and the
\* snapshot commands of the replicas
DbTask ==
    \/ Cycle
    \/ HandleSnapshot
    \/ SnapSend

\* the replicator with one replica and no other writer; the runtime keeps
\* running the database task and the replica's task
InitFair ==
    InitWith({c \in Configs : c.nrep = 1 /\ ~c.db_has_dir}, {Fresh}, 0, RestartTicks, 0)

NextFair ==
    \/ DbTask
    \/ Replica

\* the steps of the database task whose weak fairness is written WF_
DbTaskRest ==
    \/ Startup
    \/ Tick
    \/ CgMkdir
    \/ CgCreate
    \/ CgWrite
    \/ CgRename
    \/ CgClean
    \/ SyncWal
    \/ Decide
    \/ CkExec
    \/ CkInsert
    \/ CkHdr2
    \/ CkLock
    \/ HandleSnapshot

\* weak fairness of Verify, CkCopy, CleanStep, Notify and SnapSend, written
\* out: each is enabled where pc names it (Notify and SnapSend when the
\* channel they send on has room) and each leaves that pc, so the task does
\* not rest there
FairVerify == []<>(pc # "verify")
FairCkCopy == []<>(pc # "ck_copy")
FairCleanStep == []<>(pc # "clean")
FairNotify ==
    []<>(~(pc = "notify" /\ (info.changed => Len(rInbox[1]) < MaxInbox)))
FairSnapSend ==
    []<>(~(pc = "snap_send" /\ (genfile = 0 \/ Len(rInbox[1]) < MaxInbox)))

SpecFair ==
    /\ InitFair
    /\ [][NextFair]_vars
    /\ WF_vars(DbTaskRest)
    /\ FairVerify
    /\ FairCkCopy
    /\ FairCleanStep
    /\ FairNotify
    /\ FairSnapSend
    /\ WF_vars(Replica)

\* C37: a replica never stays in WaitSnapshot forever: once it has asked
\* for a snapshot it returns to WaitDbChanged, also when the database fails
\* to build the snapshot, when the upload fails, or when the position
\* delivered has offset 0 (for the replica of SpecFair).
C37_LeavesWaitSnapshot ==
    (rstate[1] = "WaitSnapshot") ~> (rstate[1] = "WaitDbChanged")

\* the database task, fairly scheduled, beside another writer: the commands
\* it sends stay in the channel of the replica.  Beside the configuration
\* of the other runs there is one whose page thresholds lie above the frames
\* the WAL comes to hold
HighThresholds ==
    [nrep |-> 1, db_has_dir |-> FALSE, min_checkpoint_page_number |-> MinPages + 2,
     max_checkpoint_page_number |-> MinPages + 3,
     truncate_page_number |-> MinPages + 4, checkpoint_interval_secs |-> 60]

InitAnnounce ==
    InitWith({c \in Configs : c.nrep = 1 /\ ~c.db_has_dir} \cup {HighThresholds},
             {Fresh}, RepWrites, RestartTicks, 0)

NextAnnounce ==
    \/ Cycle
    \/ Writer

SpecAnnounce ==
    /\ InitAnnounce
    /\ [][NextAnnounce]_vars
    /\ WF_vars(DbTaskRest)
    /\ FairVerify
    /\ FairCkCopy
    /\ FairCleanStep
    /\ FairNotify

\* the last DbChanged sent names the end of the current shadow file
Announced ==
    /\ rInbox[1] # <<>>
    /\ rInbox[1][Len(rInbox[1])].pos = wal_generation_position

\* a sync cycle has come through clean() while the shadow holds frames that
\* no DbChanged has announced, and a further cycle is still to come
Unannounced ==
    /\ pc = "notify"
    /\ tleft > 0
    /\ wal_generation_position.offset > WAL_HEADER_SIZE
    /\ ~Announced

C39_RotationVisible ==
    (genfile # 0 /\ ShadowKeys(genfile) # {}) =>
        /\ \A k \in ShadowKeys(genfile) : parse_wal_path(format_wal_path(k[2])) = k[2]
        /\ current_shadow_index(genfile) = TopIndex(genfile)

\* the header of the highest shadow file of generation g can be read and
\* equals the header of the live WAL
TopHeaderMatches(g) ==
    /\ ShadowKeys(g) # {}
    /\ wal.hdr # NoHdr
    /\ shadow[<<g, TopIndex(g)>>].hdr # NoHdr
    /\ shadow[<<g, TopIndex(g)>>].hdr = wal.hdr

\* C40: on startup with a generation pointer: if the header of the highest
\* shadow file of that generation cannot be read or differs from the header
\* of the live WAL, the pointer is removed and every generation directory
\* is cleaned, and the first sync cycle then starts a new generation; if the
\* headers match, the generation and its shadow files are kept.
C40_StartupKeepsOrClears ==
    [][/\ (pc = "down" /\ pc' = "idle" /\ genfile # 0) =>
             IF TopHeaderMatches(genfile)
             THEN /\ genfile' = genfile
                  /\ genfile \in gendirs => genfile \in gendirs'
                  /\ \A k \in ShadowKeys(genfile) :
                        k \in DOMAIN shadow' /\ shadow'[k] = shadow[k]
             ELSE /\ genfile' = 0
                  /\ gendirs' = {}
                  /\ DOMAIN shadow' = {}
       /\ (pc = "verify" /\ pc' \notin {"verify", "down"} /\ genfile = 0) =>
             pc' = "cg_mkdir"]_vars
====
